---- MODULE Spec2Model ----
(***************************************************************************)
(* A model of the slide grouping of ms_ocr: GammaExporter._build_slides    *)
(* (exporters/gamma_exporter.py) and GammaTextExporter.export              *)
(* (exporters/gamma_text_exporter.py), both consuming one list of          *)
(* LayoutElement (layout/rules.py), and of what builds that list: the      *)
(* classifiers LayoutRules.classify_block (layout/rules.py) and            *)
(* ProcessingPipeline._classify_ocr_line (pipeline.py), and                *)
(* LayoutDetector._detect_rules and merge_elements (layout/detector.py).   *)
(*                                                                         *)
(* A Python str is a sequence of one-character strings; None and the empty *)
(* str are both the empty sequence, which is how the code itself reads     *)
(* them (every test of a title, a text or a list is a truthiness test).    *)
(***************************************************************************)
EXTENDS Integers, Sequences, FiniteSets, TLC

\* ------------------------------------------------------------------ bounds

\* Longest element list of the specification Spec (every kind of element).
MaxElems == 3
\* Longest element list of SpecCapacity (an open title, list items, paragraphs).
MaxCapElems == 8
\* Longest element list of SpecSections (headings of every level, content).
MaxSectionElems == 4
\* Most tables handed to an exporter.
MaxTables == 2
\* SpecTextLong: most leading list items, and most elements after them.
MaxOrphans == 17
MaxTail == 2
\* merge_elements: the longest list merged
MaxMergeElems == 3
\* The fragments classified: deepest section number, widest indentation of a
\* list item, largest font size.
MaxDepth == 7
MaxIndent == 4
MaxFontSize == 17
\* LayoutRules: largest size of a configuration.
MaxConfigSize == 16
\* _detect_rules: most blocks on a page.
MaxBlocks == 3
\* detect_headers_footers: most pages passed.
MaxPages == 5
\* TextPostProcessor.process: most pieces of a text.
MaxPieces == 3
\* process_pdf: most pages of a document and most documents of a pipeline.
MaxDocPages == 2
MaxDocuments == 2
\* cli.py: most files and most workers.
MaxFiles == 3
MaxWorkers == 3
\* convert_md_to_gamma: most lines before a list and most lines of the list.
MaxMdLines == 2
MaxMdItems == 17

\* ------------------------------------------------------- program constants

max_bullets_per_slide == 6
max_paragraphs_per_slide == 3
\* gamma_text_exporter.py:89-93, the combined capacity of a text slide
TextSlideCapacity == 8
\* "len(text) > 2" of a cleaned list item, "len(text) > 20" of a paragraph
MinBulletLen == 2
MinParagraphLen == 20
\* "len(text) < 200": a paragraph written as a bullet, else as a text block
LongParagraphLen == 200

\* LayoutElement.level when it was never set (None)
NoLevel == -1

None == <<>>

\* ------------------------------------------------------------------- text

\* str.strip(): the characters Python strips when no argument is given
Whitespace == {" ", "\t", "\n", "\r", "\f"}

\* the argument of element.text.lstrip(...); the seven bullet glyphs are named
BulletStripChars ==
    {"U+2022", "U+25CF", "U+25CB", "U+25A0", "U+25A1", "U+25AA", "U+25AB",
     "-", "*", "0", "1", "2", "3", "4", "5", "6", "7", "8", "9", ".", " ", "\t"}

RECURSIVE LStrip(_, _)
LStrip(s, chars) ==
    IF s # <<>> /\ Head(s) \in chars THEN LStrip(Tail(s), chars) ELSE s

RECURSIVE RStrip(_, _)
RStrip(s, chars) ==
    IF s # <<>> /\ s[Len(s)] \in chars
    THEN RStrip(SubSeq(s, 1, Len(s) - 1), chars)
    ELSE s

\* strip() forgotten
StripNothing(s) == s

Strip(s) == RStrip(LStrip(s, Whitespace), Whitespace)

\* sep.join(parts)
RECURSIVE Join(_, _)
Join(sep, parts) ==
    IF parts = <<>> THEN <<>>
    ELSE IF Len(parts) = 1 THEN parts[1]
    ELSE parts[1] \o sep \o Join(sep, Tail(parts))

\* the sequences of parts put end to end
RECURSIVE Concat(_)
Concat(parts) == IF parts = <<>> THEN <<>> ELSE Head(parts) \o Concat(Tail(parts))

\* list[:n]
Take(s, n) == SubSeq(s, 1, IF Len(s) < n THEN Len(s) ELSE n)

\* list[n:]
Drop(s, n) == SubSeq(s, n + 1, Len(s))

Rep(c, n) == [i \in 1..n |-> c]

\* needle in hay (Python's substring test), for the check of speaker notes
Contains(hay, needle) ==
    \/ needle = <<>>
    \/ \E k \in 0..(Len(hay) - Len(needle)) :
          /\ hay[k + Len(needle)] = needle[Len(needle)]
          /\ SubSeq(hay, k + 1, k + Len(needle)) = needle

\* ------------------------------------------------------- the input lists

\* One letter per position of the list: it makes every element's text its own.
MarkChars ==
    <<"A", "B", "C", "D", "E", "F", "G", "H", "I", "J", "K", "L", "M",
      "N", "O", "P", "Q", "R", "S", "T", "U", "V", "W", "X", "Y", "Z">>

Mark(i) == MarkChars[i]

\* LayoutElement(type, text, level); page_num, bbox and metadata are read by
\* neither exporter.
Element(type, text, level) == [type |-> type, text |-> text, level |-> level]

\* The element of kind k at position i of an input list.
MkElement(k, i) ==
    CASE k = "title"    -> Element("title", <<"D", "o", "c", Mark(i)>>, 1)
      [] k = "h1"       -> Element("heading", <<"S", Mark(i)>>, 1)
      [] k = "h2"       -> Element("heading", <<"T", Mark(i)>>, 2)
      [] k = "h3"       -> Element("heading", <<"T", Mark(i)>>, 3)
      [] k = "h4"       -> Element("heading", <<"Q", Mark(i)>>, 4)
      \* a heading built without a level (the dataclass default)
      [] k = "hNone"    -> Element("heading", <<"N", Mark(i)>>, NoLevel)
      \* "- ptA": cleaned "ptA", 3 characters, kept
      [] k = "li"       -> Element("list_item", <<"-", " ", "p", "t", Mark(i)>>, 1)
      \* "1. pA": cleaned "pA", 2 characters, dropped
      [] k = "li_short" -> Element("list_item", <<"1", ".", " ", "p", Mark(i)>>, 1)
      \* 21 characters, kept
      [] k = "p"        -> Element("paragraph", Rep("x", MinParagraphLen) \o <<Mark(i)>>, NoLevel)
      \* 22 characters, 20 once stripped, dropped
      [] k = "p_short"  -> Element("paragraph",
                             <<" ">> \o Rep("x", MinParagraphLen - 1) \o <<Mark(i), "\n">>,
                             NoLevel)
      \* 200 characters
      [] k = "p_long"   -> Element("paragraph",
                             Rep("x", LongParagraphLen - 1) \o <<Mark(i)>>, NoLevel)

\* The lists of at most n elements with kinds drawn from Kinds.
ElementLists(Kinds, n) ==
    UNION {{[i \in 1..m |-> MkElement(ks[i], i)] : ks \in [1..m -> Kinds]} : m \in 0..n}

\* Table.to_markdown(): "" for an empty frame, else the rendered frame
Table(j) == [id |-> j, empty |-> (j % 2 = 0)]

to_markdown(t) == IF t.empty THEN <<>> ELSE <<"|", Mark(t.id), "|">>

TableLists(n) == {[j \in 1..m |-> Table(j)] : m \in 0..n}

\* ------------------------------------------------------------------ state

VARIABLES
    elements,            \* the argument: List[LayoutElement]
    tables,              \* the argument: List[Table]
    pc,                  \* idle, gamma_loop, text_loop, done, raised
    call,                \* which exporter was called: none, gamma, text
    idx,                 \* the loop's position in elements (1-based)
    slides,              \* GammaExporter: the slide list being built
    current_title,
    current_bullets,
    current_paragraphs,
    out,                 \* GammaTextExporter: the blocks written to the file
    current_slide_title,
    current_content,
    slide_count,
    all_elements,        \* ProcessingPipeline: the list the classifiers fill and
                         \* merge_elements receives; its elements are objects
    text_blocks,         \* page_info.text_blocks, the argument of _detect_rules
    headers,             \* exclude_headers_footers[0]
    footers,             \* exclude_headers_footers[1]
    lines,               \* the lines of an OCR page still to classify
    page_num,            \* the number of the page being classified
    run,                 \* how many times the list has been merged and grouped
    first_slides,        \* what _build_slides returned the first time
    title_min_size,      \* LayoutRules: the three sizes given to the constructor
    heading_min_size,
    body_size,
    blocks_by_page,      \* detect_headers_footers: the blocks of every page passed
    threshold,           \* detect_headers_footers: the ratio, in hundredths
    fix_hyphens,         \* TextPostProcessor: the two switches of the constructor
    fix_spacing,
    words_corrected,     \* TextPostProcessor.words_corrected
    ocr_text,            \* the argument of the last call of process
    processed_text,      \* what the last call of process returned
    doc_pages,           \* process_pdf: the pages of the document, with the text
                         \* the OCR engine reads on those that need it
    page_metrics,        \* MetricsCollector.pages of the document
    documents,           \* how many documents the pipeline object was given
    workers,             \* cli.py: the --workers option
    pdf_files,           \* cli.py: for every file, whether process_pdf returns
                         \* or raises on it
    submitted,           \* how many times process_pdf was started on every file
    futures,             \* _process_parallel: where every future stands
    handled,             \* the files whose try statement is over, in that order
    reported,            \* the files an error was printed for
    pbar,                \* _process_parallel: the count of the tqdm bar
    md_lines,            \* convert_md_to_gamma: lines
    md_i,                \* how many of them the loop has read
    md_slides,           \* convert_md_to_gamma: slides
    md_title,            \* convert_md_to_gamma: current_title
    slide_content,
    merged_slides,
    written              \* convert_md_to_gamma: the slides written to the file

vars == <<elements, tables, pc, call, idx, slides, current_title, current_bullets,
          current_paragraphs, out, current_slide_title, current_content, slide_count,
          all_elements, text_blocks, headers, footers, lines, page_num, run,
          first_slides, title_min_size, heading_min_size, body_size, blocks_by_page,
          threshold, fix_hyphens, fix_spacing, words_corrected, ocr_text,
          processed_text, doc_pages, page_metrics, documents, workers, pdf_files,
          submitted, futures, handled, reported, pbar, md_lines, md_i, md_slides,
          md_title, slide_content, merged_slides, written>>

\* The configuration of LayoutRules and the arguments of detect_headers_footers,
\* which no step assigns.
staticVars == <<title_min_size, heading_min_size, body_size, blocks_by_page, threshold>>

\* TextPostProcessor, and the pages and metrics of process_pdf
postVars == <<fix_hyphens, fix_spacing, words_corrected, ocr_text, processed_text,
              doc_pages, page_metrics, documents>>

\* The batch functions of cli.py
cliVars == <<workers, pdf_files, submitted, futures, handled, reported, pbar>>

\* convert_md_to_gamma.py
mdVars == <<md_lines, md_i, md_slides, md_title, slide_content, merged_slides, written>>

\* What the exporters, the classifiers and the merger leave alone.
otherVars == <<staticVars, postVars, cliVars, mdVars>>

\* Everything but pc and the variables of the three components above
coreVars ==
    <<elements, tables, call, idx, slides, current_title, current_bullets,
      current_paragraphs, out, current_slide_title, current_content, slide_count,
      all_elements, text_blocks, headers, footers, lines, page_num, run, first_slides>>

nonPostVars == <<coreVars, staticVars, cliVars, mdVars>>

nonCliVars == <<coreVars, staticVars, postVars, mdVars>>

nonMdVars == <<coreVars, staticVars, postVars, cliVars>>

pipelineVars ==
    <<all_elements, text_blocks, headers, footers, lines, page_num, run, first_slides,
      otherVars>>

gammaVars == <<slides, current_title, current_bullets, current_paragraphs>>
textVars == <<out, current_slide_title, current_content, slide_count>>

\* --------------------------------------------------------- json_schemas.py

GammaSlide(type, title, subtitle, items, md, notes, logo) ==
    [type |-> type, title |-> title, subtitle |-> subtitle, items |-> items,
     md |-> md, image |-> None, notes |-> notes, logo |-> logo]

create_cover_slide(title, subtitle, logo) ==
    GammaSlide("cover", title, subtitle, None, None, None, logo)

create_section_slide(title) ==
    GammaSlide("section", title, None, None, None, None, None)

create_bullets_slide(title, items, notes) ==
    GammaSlide("bullets", title, None, items, None, notes, None)

create_table_slide(title, markdown_table) ==
    GammaSlide("table", title, None, None, markdown_table, None, None)

\* ------------------------------------------------------- gamma_exporter.py

UntitledPresentation ==
    <<"U", "n", "t", "i", "t", "l", "e", "d", " ",
      "P", "r", "e", "s", "e", "n", "t", "a", "t", "i", "o", "n">>

\* lines 204-206: the first element of type title, 0 when there is none
FirstTitle(els) ==
    IF \E i \in 1..Len(els) : els[i].type = "title"
    THEN CHOOSE i \in 1..Len(els) :
             /\ els[i].type = "title"
             /\ \A j \in 1..(i - 1) : els[j].type # "title"
    ELSE 0

IsHeading1(e) == e.type = "heading" /\ e.level = 1

\* lines 209-211: the first heading of level 1, 0 when there is none
FirstHeading1(els) ==
    IF \E i \in 1..Len(els) : IsHeading1(els[i])
    THEN CHOOSE i \in 1..Len(els) :
             /\ IsHeading1(els[i])
             /\ \A j \in 1..(i - 1) : ~IsHeading1(els[j])
    ELSE 0

\* _detect_title falling back to the first heading of any level
DetectTitleAnyHeading(els) ==
    IF FirstTitle(els) # 0 THEN els[FirstTitle(els)].text
    ELSE IF \E i \in 1..Len(els) : els[i].type = "heading"
    THEN els[CHOOSE i \in 1..Len(els) :
                 /\ els[i].type = "heading"
                 /\ \A j \in 1..(i - 1) : els[j].type # "heading"].text
    ELSE UntitledPresentation

_detect_title(els) ==
    IF FirstTitle(els) # 0 THEN els[FirstTitle(els)].text
    ELSE IF FirstHeading1(els) # 0 THEN els[FirstHeading1(els)].text
    ELSE UntitledPresentation

\* _detect_subtitle: the first heading of level <= 2 after a title element. The
\* comparison "element.level <= 2" raises TypeError on a level of None.
RECURSIVE SubtitleFrom(_, _, _)
SubtitleFrom(els, i, found_title) ==
    IF i > Len(els) THEN [raised |-> FALSE, value |-> None]
    ELSE IF els[i].type = "title" THEN SubtitleFrom(els, i + 1, TRUE)
    ELSE IF found_title /\ els[i].type = "heading"
         THEN IF els[i].level = NoLevel THEN [raised |-> TRUE, value |-> None]
              ELSE IF els[i].level <= 2 THEN [raised |-> FALSE, value |-> els[i].text]
              ELSE SubtitleFrom(els, i + 1, found_title)
    ELSE SubtitleFrom(els, i + 1, found_title)

_detect_subtitle(els) == SubtitleFrom(els, 1, FALSE)

\* "Flush previous content" (lines 114-128) and "Flush remaining content"
\* (lines 174-186): the slides the pending lists give under the open title.
FlushSlides(title, bullets, paragraphs) ==
    IF (bullets # <<>> \/ paragraphs # <<>>) /\ title # None
    THEN IF bullets # <<>>
         THEN <<create_bullets_slide(title, Take(bullets, max_bullets_per_slide),
                    IF paragraphs # <<>> THEN Join(<<"\n">>, paragraphs) ELSE None)>>
         ELSE <<create_bullets_slide(title, Take(paragraphs, max_paragraphs_per_slide), None)>>
    ELSE <<>>

\* "Tabla {i + 1}" for the 0-based i of enumerate(tables)
Digits == <<"1", "2", "3", "4", "5", "6", "7", "8", "9">>

TableTitle(j) == <<"T", "a", "b", "l", "a", " ", Digits[j]>>

TableSlides(tbls) ==
    [j \in 1..Len(tbls) |-> create_table_slide(TableTitle(j), to_markdown(tbls[j]))]

\* lines 91-105: the cover slide and the loop's locals. _detect_subtitle may raise
\* before any slide exists.
GammaStart ==
    /\ pc = "idle"
    /\ call' = "gamma"
    /\ IF _detect_subtitle(elements).raised
       THEN /\ pc' = "raised"
            /\ slides' = <<>>
       ELSE /\ pc' = "gamma_loop"
            /\ slides' = <<create_cover_slide(_detect_title(elements),
                                              _detect_subtitle(elements).value, None)>>
    /\ current_title' = None
    /\ current_bullets' = <<>>
    /\ current_paragraphs' = <<>>
    /\ idx' = 1
    /\ UNCHANGED <<pipelineVars, elements, tables, textVars>>

\* GammaHeading with line 137 (current_title = None) left out
GammaHeadingKeepsTitle(element) ==
    LET flushed == slides \o FlushSlides(current_title, current_bullets, current_paragraphs)
    IN  /\ current_bullets' = <<>>
        /\ current_paragraphs' = <<>>
        /\ current_title' = IF element.level \in {2, 3} THEN element.text ELSE current_title
        /\ slides' = IF element.level = 1
                     THEN Append(flushed, create_section_slide(element.text))
                     ELSE flushed
        /\ pc' = IF element.level = NoLevel THEN "raised" ELSE pc

\* GammaHeading with the test "level <= 3" made before the test "level == 1"
GammaHeadingSubsectionFirst(element) ==
    LET flushed == slides \o FlushSlides(current_title, current_bullets, current_paragraphs)
    IN  /\ current_bullets' = <<>>
        /\ current_paragraphs' = <<>>
        /\ slides' = flushed
        /\ current_title' = IF element.level # NoLevel /\ element.level <= 3
                            THEN element.text ELSE current_title
        /\ pc' = IF element.level = NoLevel THEN "raised" ELSE pc

\* lines 112-141
GammaHeading(element) ==
    LET flushed == slides \o FlushSlides(current_title, current_bullets, current_paragraphs)
    IN  /\ current_bullets' = <<>>
        /\ current_paragraphs' = <<>>
        /\ IF element.level = 1
           THEN /\ slides' = Append(flushed, create_section_slide(element.text))
                /\ current_title' = None
                /\ pc' = pc
           ELSE IF element.level = NoLevel
           THEN \* None <= 3 raises TypeError, after the flush
                /\ slides' = flushed
                /\ current_title' = current_title
                /\ pc' = "raised"
           ELSE /\ slides' = flushed
                /\ current_title' = IF element.level <= 3 THEN element.text ELSE current_title
                /\ pc' = pc

\* GammaListItem without the auto-flush of lines 149-156
GammaListItemNoAutoFlush(element) ==
    LET text == LStrip(element.text, BulletStripChars)
    IN  /\ IF text # <<>> /\ Len(text) > MinBulletLen
           THEN current_bullets' = Append(current_bullets, text)
           ELSE UNCHANGED current_bullets
        /\ UNCHANGED <<slides, current_title, current_paragraphs, pc>>

\* lines 143-156
GammaListItem(element) ==
    LET text == LStrip(element.text, BulletStripChars)
        appended == Append(current_bullets, text)
    IN  /\ IF text # <<>> /\ Len(text) > MinBulletLen
           THEN IF Len(appended) >= max_bullets_per_slide
                THEN /\ slides' = IF current_title # None
                                  THEN Append(slides, create_bullets_slide(current_title,
                                           Take(appended, max_bullets_per_slide), None))
                                  ELSE slides
                     /\ current_bullets' = <<>>
                ELSE /\ slides' = slides
                     /\ current_bullets' = appended
           ELSE UNCHANGED <<slides, current_bullets>>
        /\ UNCHANGED <<current_title, current_paragraphs, pc>>

\* lines 158-171
GammaParagraph(element) ==
    LET text == Strip(element.text)
        appended == Append(current_paragraphs, text)
    IN  /\ IF text # <<>> /\ Len(text) > MinParagraphLen
           THEN IF Len(appended) >= max_paragraphs_per_slide
                THEN /\ slides' = IF current_title # None
                                  THEN Append(slides, create_bullets_slide(current_title,
                                           Take(appended, max_paragraphs_per_slide), None))
                                  ELSE slides
                     /\ current_paragraphs' = <<>>
                ELSE /\ slides' = slides
                     /\ current_paragraphs' = appended
           ELSE UNCHANGED <<slides, current_paragraphs>>
        /\ UNCHANGED <<current_title, current_bullets, pc>>

\* lines 107-171: one iteration of "for i, element in enumerate(elements)"
GammaStep ==
    /\ pc = "gamma_loop"
    /\ idx <= Len(elements)
    /\ idx' = idx + 1
    /\ CASE elements[idx].type = "title"     -> UNCHANGED <<gammaVars, pc>>
         [] elements[idx].type = "heading"   -> GammaHeading(elements[idx])
         [] elements[idx].type = "list_item" -> GammaListItem(elements[idx])
         [] elements[idx].type = "paragraph" -> GammaParagraph(elements[idx])
         [] OTHER                            -> UNCHANGED <<gammaVars, pc>>
    /\ UNCHANGED <<pipelineVars, elements, tables, call, textVars>>

\* GammaFinish with the table loop placed before the last flush
GammaFinishTablesFirst ==
    /\ pc = "gamma_loop"
    /\ idx > Len(elements)
    /\ slides' = slides \o TableSlides(tables)
                        \o FlushSlides(current_title, current_bullets, current_paragraphs)
    /\ pc' = "done"
    /\ UNCHANGED <<pipelineVars, elements, tables, call, idx, current_title, current_bullets,
                   current_paragraphs, textVars>>

\* lines 173-193: the last flush, the table slides, the return
GammaFinish ==
    /\ pc = "gamma_loop"
    /\ idx > Len(elements)
    /\ slides' = slides \o FlushSlides(current_title, current_bullets, current_paragraphs)
                        \o TableSlides(tables)
    /\ pc' = "done"
    /\ UNCHANGED <<pipelineVars, elements, tables, call, idx, current_title, current_bullets,
                   current_paragraphs, textVars>>

\* -------------------------------------------------- gamma_text_exporter.py

\* export(..., title="Presentation")
PresentationTitle ==
    <<"P", "r", "e", "s", "e", "n", "t", "a", "t", "i", "o", "n">>

Gracias == <<"G", "r", "a", "c", "i", "a", "s">>

\* One block of the file, up to and including its "---" separator (the last block
\* has none): the "#"/"##" title line, the lines under it, and for the closing
\* block the number printed after "Total de slides:".
Block(kind, title, content, count) ==
    [kind |-> kind, title |-> title, content |-> content, count |-> count]

\* _write_slide (lines 112-123)
_write_slide(f, title, content) == Append(f, Block("slide", title, content, 0))

\* lines 56-59: "Flush previous slide"
TextFlush(f, title, content) ==
    IF title # None /\ content # <<>> THEN _write_slide(f, title, content) ELSE f

Flushes(title, content) == IF title # None /\ content # <<>> THEN 1 ELSE 0

\* lines 38-47
TextStart ==
    /\ pc = "idle"
    /\ call' = "text"
    /\ pc' = "text_loop"
    /\ out' = <<Block("cover", PresentationTitle, <<>>, 0)>>
    /\ current_slide_title' = None
    /\ current_content' = <<>>
    /\ slide_count' = 0
    /\ idx' = 1
    /\ UNCHANGED <<pipelineVars, elements, tables, gammaVars>>

\* lines 72-86: what a list item or a paragraph adds to current_content
TextItems(element) ==
    IF element.type = "list_item"
    THEN LET text == LStrip(element.text, BulletStripChars)
         IN  IF text # <<>> /\ Len(text) > MinBulletLen
             THEN <<(<<"-", " ">> \o text)>>
             ELSE <<>>
    ELSE IF element.type = "paragraph"
    THEN LET text == Strip(element.text)
         IN  IF text # <<>> /\ Len(text) > MinParagraphLen
             THEN IF Len(text) < LongParagraphLen
                  THEN <<(<<"-", " ">> \o text)>>
                  ELSE <<(<<"\n">> \o text \o <<"\n">>)>>
             ELSE <<>>
    ELSE <<>>

\* lines 88-93: "Auto-flush if too much content", from the state the branch left
TextAutoFlush(f, title, content, count) ==
    IF Len(content) >= TextSlideCapacity /\ title # None
    THEN /\ out' = _write_slide(f, title, Take(content, TextSlideCapacity))
         /\ slide_count' = count + 1
         /\ current_content' = Drop(content, TextSlideCapacity)
    ELSE /\ out' = f
         /\ slide_count' = count
         /\ current_content' = content

\* lines 54-70, then 88-93
TextHeading(element) ==
    LET flushedOut == TextFlush(out, current_slide_title, current_content)
        flushedCount == slide_count + Flushes(current_slide_title, current_content)
        flushedContent == IF current_slide_title # None /\ current_content # <<>>
                          THEN <<>> ELSE current_content
    IN  IF element.level = 1
        THEN /\ current_slide_title' = None
             /\ pc' = pc
             /\ TextAutoFlush(Append(flushedOut, Block("section", element.text, <<>>, 0)),
                              None, flushedContent, flushedCount + 1)
        ELSE IF element.level = NoLevel
        THEN \* None <= 3 raises TypeError, after the flush
             /\ current_slide_title' = current_slide_title
             /\ pc' = "raised"
             /\ out' = flushedOut
             /\ slide_count' = flushedCount
             /\ current_content' = flushedContent
        ELSE LET title == IF element.level <= 3 THEN element.text ELSE current_slide_title
             IN  /\ current_slide_title' = title
                 /\ pc' = pc
                 /\ TextAutoFlush(flushedOut, title, flushedContent, flushedCount)

\* lines 49-93: one iteration of "for element in elements"
TextStep ==
    /\ pc = "text_loop"
    /\ idx <= Len(elements)
    /\ idx' = idx + 1
    /\ CASE elements[idx].type = "title"   -> UNCHANGED <<textVars, pc>>
         [] elements[idx].type = "heading" -> TextHeading(elements[idx])
         [] OTHER ->
              /\ TextAutoFlush(out, current_slide_title,
                               current_content \o TextItems(elements[idx]), slide_count)
              /\ UNCHANGED <<current_slide_title, pc>>
    /\ UNCHANGED <<pipelineVars, elements, tables, call, gammaVars>>

TextTableBlocks(tbls) ==
    [j \in 1..Len(tbls) |-> Block("table", TableTitle(j), <<to_markdown(tbls[j])>>, 0)]

\* lines 95-110: the last flush, the tables, the closing slide
TextFinish ==
    /\ pc = "text_loop"
    /\ idx > Len(elements)
    /\ LET count == slide_count + Flushes(current_slide_title, current_content)
                        + Len(tables)
       IN  /\ out' = Append(TextFlush(out, current_slide_title, current_content)
                              \o TextTableBlocks(tables),
                            Block("final", Gracias, <<>>, count))
           /\ slide_count' = count
    /\ pc' = "done"
    /\ UNCHANGED <<pipelineVars, elements, tables, call, idx, current_slide_title, current_content,
                   gammaVars>>

\* --------------------------------------------------------- layout/rules.py

\* A TextBlock (readers/pdf_reader.py); font_name and is_italic are read by no
\* rule. A font size is a whole number of points.
TextBlock(text, font_size, is_bold, page, bbox) ==
    [text |-> text, font_size |-> font_size, is_bold |-> is_bold,
     page_num |-> page, bbox |-> bbox]

\* lines 29-33: the defaults of LayoutRules.__init__
DefaultTitleMinSize == 16
DefaultHeadingMinSize == 12
DefaultBodySize == 10
\* line 242: threshold = 0.6, in hundredths
DefaultThreshold == 60

DigitChars == {"0", "1", "2", "3", "4", "5", "6", "7", "8", "9"}

UpperChars ==
    {"A", "B", "C", "D", "E", "F", "G", "H", "I", "J", "K", "L", "M",
     "N", "O", "P", "Q", "R", "S", "T", "U", "V", "W", "X", "Y", "Z"}

LowerChars ==
    {"a", "b", "c", "d", "e", "f", "g", "h", "i", "j", "k", "l", "m",
     "n", "o", "p", "q", "r", "s", "t", "u", "v", "w", "x", "y", "z"}

\* the character class of the bullet pattern, line 178; the seven bullet glyphs
\* are named
BulletChars ==
    {"U+2022", "U+25CF", "U+25CB", "U+25A0", "U+25A1", "U+25AA", "U+25AB", "-", "*"}

\* The length of the longest prefix of s made of characters of chars.
RunLen(s, chars) ==
    IF \A i \in 1..Len(s) : s[i] \in chars THEN Len(s)
    ELSE (CHOOSE i \in 1..Len(s) :
              s[i] \notin chars /\ \A j \in 1..(i - 1) : s[j] \in chars) - 1

RECURSIVE SectionTail(_, _)
\* (?:\.\d+)* from place n + 1 of s on, greedy: the place the match ends at
SectionTail(s, n) ==
    IF n + 1 <= Len(s) /\ s[n + 1] = "." /\ RunLen(Drop(s, n + 1), DigitChars) > 0
    THEN SectionTail(s, n + 1 + RunLen(Drop(s, n + 1), DigitChars))
    ELSE n

\* ^\d+(?:\.\d+)* : the length of the match, 0 when s does not start with a
\* digit. A shorter match ends before a digit or a dot, so it is of no use to
\* a pattern that goes on with \s.
SectionPrefixLen(s) ==
    IF RunLen(s, DigitChars) = 0 THEN 0 ELSE SectionTail(s, RunLen(s, DigitChars))

\* ^\s+ : at least one whitespace character at the start of s
StartsWithSpace(s) == s # <<>> /\ s[1] \in Whitespace

\* (.+)$ over the whole of s: some characters, no line break among them, a last
\* line break allowed after them
DotPlusToEnd(s) ==
    LET body == IF s # <<>> /\ s[Len(s)] = "\n" THEN SubSeq(s, 1, Len(s) - 1) ELSE s
    IN  body # <<>> /\ \A i \in 1..Len(body) : body[i] # "\n"

\* re.match(r"^(\d+(?:\.\d+)*)\s+(.+)$", text): whether it matches, and group 1
section_match(text) ==
    LET n == SectionPrefixLen(text)
        rest == Drop(text, n)
        spaces == RunLen(rest, Whitespace)
    IN  [matched |-> /\ n > 0
                     /\ \E k \in 1..spaces : DotPlusToEnd(Drop(rest, k)),
         group1  |-> SubSeq(text, 1, n)]

\* str.isupper(): some cased character, none of them lower case
isupper(s) ==
    /\ \E i \in 1..Len(s) : s[i] \in UpperChars
    /\ \A i \in 1..Len(s) : s[i] \notin LowerChars

\* lines 168-189. Each pattern is a prefix, one of [.)] where it has one, then
\* one whitespace character at least.
_is_list_item(text) ==
    \/ /\ text # <<>>
       /\ text[1] \in BulletChars
       /\ StartsWithSpace(Drop(text, 1))
    \/ LET n == RunLen(text, DigitChars)
       IN  /\ n > 0
           /\ Len(text) > n
           /\ text[n + 1] \in {".", ")"}
           /\ StartsWithSpace(Drop(text, n + 1))
    \/ /\ Len(text) >= 2
       /\ text[1] \in LowerChars \cup UpperChars
       /\ text[2] \in {".", ")"}
       /\ StartsWithSpace(Drop(text, 2))

\* lines 191-206
_get_list_level(text) ==
    LET spaces == RunLen(text, Whitespace)
    IN  IF spaces > 0 THEN (spaces \div 2) + 1 ELSE 1

\* _is_title without the test of the font size
IsTitleNoSize(block) ==
    LET text == Strip(block.text)
    IN  \/ isupper(text) /\ block.is_bold /\ Len(text) > 5
        \/ block.is_bold /\ Len(text) < 100

\* _is_title without the last test, of a bold text shorter than 100 characters
IsTitleNoShortBold(block) ==
    LET text == Strip(block.text)
    IN  \/ block.font_size >= title_min_size
        \/ isupper(text) /\ block.is_bold /\ Len(text) > 5

\* lines 123-147
_is_title(block) ==
    LET text == Strip(block.text)
    IN  \/ block.font_size >= title_min_size
        \/ isupper(text) /\ block.is_bold /\ Len(text) > 5
        \/ block.is_bold /\ Len(text) < 100

\* lines 149-166
_is_heading(block) ==
    \/ block.font_size >= heading_min_size /\ block.font_size > body_size
    \/ block.is_bold /\ 5 < Len(Strip(block.text)) /\ Len(Strip(block.text)) < 100

\* len(section_num.split(".")): a part more than there are dots
SplitCount(section_num) ==
    1 + Cardinality({i \in 1..Len(section_num) : section_num[i] = "."})

\* _get_heading_level_from_number without the cap
HeadingLevelUncapped(section_num) == SplitCount(section_num)

\* lines 208-219
_get_heading_level_from_number(section_num) ==
    IF SplitCount(section_num) < 6 THEN SplitCount(section_num) ELSE 6

\* lines 221-239
_get_heading_level_from_size(font_size) ==
    IF font_size >= title_min_size THEN 1
    ELSE IF font_size >= heading_min_size + 4 THEN 2
    ELSE IF font_size >= heading_min_size + 2 THEN 3
    ELSE IF font_size >= heading_min_size THEN 4
    ELSE 5

\* LayoutElement(type, text, level, page_num, bbox, metadata)
LayoutElement(type, text, level, block, metadata) ==
    [type |-> type, text |-> text, level |-> level, page_num |-> block.page_num,
     bbox |-> block.bbox, metadata |-> metadata]

\* classify_block with the rule of the section number tried before the title
ClassifyNumberBeforeTitle(block) ==
    LET text == Strip(block.text)
        m == section_match(text)
    IN  IF _is_list_item(text)
        THEN LayoutElement("list_item", text, _get_list_level(text), block,
                           [font_size |-> block.font_size])
        ELSE IF m.matched
        THEN LayoutElement("heading", text, _get_heading_level_from_number(m.group1), block,
                           [font_size |-> block.font_size, section_number |-> m.group1,
                            bold |-> block.is_bold])
        ELSE IF _is_title(block)
        THEN LayoutElement("title", text, 1, block,
                           [font_size |-> block.font_size, bold |-> block.is_bold])
        ELSE IF _is_heading(block)
        THEN LayoutElement("heading", text, _get_heading_level_from_size(block.font_size),
                           block, [font_size |-> block.font_size, bold |-> block.is_bold])
        ELSE LayoutElement("paragraph", text, NoLevel, block,
                           [font_size |-> block.font_size])

\* lines 46-121: LayoutRules.classify_block
classify_block(block) ==
    LET text == Strip(block.text)
        m == section_match(text)
    IN  IF _is_list_item(text)
        THEN LayoutElement("list_item", text, _get_list_level(text), block,
                           [font_size |-> block.font_size])
        ELSE IF _is_title(block)
        THEN LayoutElement("title", text, 1, block,
                           [font_size |-> block.font_size, bold |-> block.is_bold])
        ELSE IF m.matched
        THEN LayoutElement("heading", text, _get_heading_level_from_number(m.group1), block,
                           [font_size |-> block.font_size, section_number |-> m.group1,
                            bold |-> block.is_bold])
        ELSE IF _is_heading(block)
        THEN LayoutElement("heading", text, _get_heading_level_from_size(block.font_size),
                           block, [font_size |-> block.font_size, bold |-> block.is_bold])
        ELSE LayoutElement("paragraph", text, NoLevel, block,
                           [font_size |-> block.font_size])

\* detect_headers_footers asking for two pages only
TooFewPagesTwo(pages) == pages = <<>> \/ Len(pages) < 2

\* line 253
TooFewPages(pages) == pages = <<>> \/ Len(pages) < 3

\* lines 264-267: sorted(blocks, key=lambda b: b.bbox[1])[0]. The bbox of a block
\* of the model is its vertical position bbox[1]; the sort is stable, so of the
\* blocks highest on the page the first of the list comes first.
TopBlock(blocks) ==
    blocks[CHOOSE i \in 1..Len(blocks) :
              /\ \A j \in 1..Len(blocks) : blocks[i].bbox <= blocks[j].bbox
              /\ \A j \in 1..(i - 1) : blocks[i].bbox < blocks[j].bbox]

\* lines 264-270: sorted(...)[-1], of the blocks lowest on the page the last
BottomBlock(blocks) ==
    blocks[CHOOSE i \in 1..Len(blocks) :
              /\ \A j \in 1..Len(blocks) : blocks[j].bbox <= blocks[i].bbox
              /\ \A j \in (i + 1)..Len(blocks) : blocks[j].bbox < blocks[i].bbox]

\* lines 257-267: top_blocks
top_blocks(pages) ==
    LET with_blocks == SelectSeq(pages, LAMBDA blocks : blocks # <<>>)
    IN  [k \in 1..Len(with_blocks) |-> Strip(TopBlock(with_blocks[k]).text)]

\* lines 258-270: bottom_blocks
bottom_blocks(pages) ==
    LET with_two == SelectSeq(pages, LAMBDA blocks : Len(blocks) > 1)
    IN  [k \in 1..Len(with_two) |-> Strip(BottomBlock(with_two[k]).text)]

\* lines 288-301: count / total >= threshold, the threshold in hundredths
_find_repeated_texts(texts, ratio) ==
    {texts[k] : k \in {k \in 1..Len(texts) :
        Cardinality({n \in 1..Len(texts) : texts[n] = texts[k]}) * 100
            >= ratio * Len(texts)}}

\* lines 253-276: LayoutRules.detect_headers_footers, as pipeline.py line 122
\* calls it
DetectHeadersFooters ==
    /\ pc = "to_filter"
    /\ IF TooFewPages(blocks_by_page)
       THEN /\ headers' = {}
            /\ footers' = {}
       ELSE /\ headers' = _find_repeated_texts(top_blocks(blocks_by_page), threshold)
            /\ footers' = _find_repeated_texts(bottom_blocks(blocks_by_page), threshold)
    /\ pc' = "filtered"
    /\ UNCHANGED <<elements, tables, call, idx, gammaVars, textVars, all_elements,
                   text_blocks, lines, page_num, run, first_slides, otherVars>>

\* ------------------------------------------------------ layout/detector.py

\* _detect_rules taking the text of the block as it is
ExcludedUntrimmed(block) == block.text \in headers \/ block.text \in footers

\* line 78: the block is a header or a footer
Excluded(block) == Strip(block.text) \in headers \/ Strip(block.text) \in footers

\* lines 73-74
DetectStart ==
    /\ pc = "to_detect"
    /\ elements' = <<>>
    /\ idx' = 1
    /\ pc' = "detect_loop"
    /\ UNCHANGED <<pipelineVars, tables, call, gammaVars, textVars>>

\* lines 76-82: one iteration of "for block in page_info.text_blocks"
DetectStep ==
    /\ pc = "detect_loop"
    /\ idx <= Len(text_blocks)
    /\ idx' = idx + 1
    /\ elements' = IF Excluded(text_blocks[idx])
                   THEN elements
                   ELSE Append(elements, classify_block(text_blocks[idx]))
    /\ UNCHANGED <<pipelineVars, tables, pc, call, gammaVars, textVars>>

\* line 84
DetectReturn ==
    /\ pc = "detect_loop"
    /\ idx > Len(text_blocks)
    /\ pc' = "detected"
    /\ UNCHANGED <<pipelineVars, elements, tables, call, idx, gammaVars, textVars>>

\* A LayoutElement with its page_num and bbox set: the element e placed on a
\* page, its bbox standing for the place i it has there.
OnPage(e, page, i) ==
    [f \in DOMAIN e \cup {"page_num", "bbox"} |->
        CASE f = "page_num" -> page
          [] f = "bbox"     -> i
          [] OTHER          -> e[f]]

\* The lists of at most n elements, kinds from Kinds and pages from Pages.
PagedLists(Kinds, Pages, n) ==
    UNION {{[i \in 1..m |-> OnPage(MkElement(ks[i], i), ps[i], i)] :
               ks \in [1..m -> Kinds], ps \in [1..m -> Pages]} : m \in 0..n}

\* ShouldMerge without the comparison of the page numbers
ShouldMergeAnyPage(current, element) ==
    current.type = "paragraph" /\ element.type = "paragraph"

\* lines 120-124: the test that merges element into current
ShouldMerge(current, element) ==
    /\ current.type = "paragraph"
    /\ element.type = "paragraph"
    /\ element.page_num = current.page_num

\* MergeStep merging into current only while current has absorbed nothing yet
MergeStepOnce(st, i) ==
    IF ShouldMerge(st.heap[st.current], st.heap[i]) /\ st.current = i - 1
    THEN [st EXCEPT !.heap[st.current].text = @ \o <<" ">> \o st.heap[i].text]
    ELSE [st EXCEPT !.merged = Append(@, st.current), !.current = i]

\* lines 118-128: one iteration of "for element in elements[1:]". heap is the
\* argument, whose elements are objects: current and the entries of merged are
\* places in it, and "current.text +=" writes into the object of the argument.
MergeStep(st, i) ==
    IF ShouldMerge(st.heap[st.current], st.heap[i])
    THEN [st EXCEPT !.heap[st.current].text = @ \o <<" ">> \o st.heap[i].text]
    ELSE [st EXCEPT !.merged = Append(@, st.current), !.current = i]

RECURSIVE MergeLoop(_, _)
\* lines 118-130: the loop from element i on, then the last append
MergeLoop(st, i) ==
    IF i > Len(st.heap)
    THEN [st EXCEPT !.merged = Append(@, st.current)]
    ELSE MergeLoop(MergeStep(st, i), i + 1)

\* lines 112-131: LayoutDetector.merge_elements. ret is the list returned, heap
\* the argument as the call leaves it.
MergeRun(els) ==
    IF els = <<>>
    THEN [heap |-> els, ret |-> <<>>]
    ELSE LET st == MergeLoop([heap |-> els, merged |-> <<>>, current |-> 1], 2)
         IN  [heap |-> st.heap,
              ret  |-> [j \in 1..Len(st.merged) |-> st.heap[st.merged[j]]]]

merge_elements(els) == MergeRun(els).ret

\* pipeline.py, line 146: all_elements = merge_elements(all_elements), the list
\* handed to the exporter; the objects of the list passed in keep what the call
\* wrote into them.
Merge ==
    /\ pc = "to_merge"
    /\ elements' = merge_elements(all_elements)
    /\ all_elements' = MergeRun(all_elements).heap
    /\ pc' = "idle"
    /\ UNCHANGED <<tables, call, idx, gammaVars, textVars, text_blocks, headers,
                   footers, lines, page_num, run, first_slides, otherVars>>

\* The same list object is merged and grouped a second time: the slides of the
\* first run are kept aside and the exporter's locals start afresh.
Rerun ==
    /\ pc = "done"
    /\ call = "gamma"
    /\ run = 1
    /\ run' = 2
    /\ first_slides' = slides
    /\ pc' = "to_merge"
    /\ call' = "none"
    /\ idx' = 0
    /\ slides' = <<>>
    /\ current_title' = None
    /\ current_bullets' = <<>>
    /\ current_paragraphs' = <<>>
    /\ UNCHANGED <<elements, tables, textVars, all_elements, text_blocks, headers,
                   footers, lines, page_num, otherVars>>

\* ------------------------------------------------------- ocr/postprocess.py

\* \w, for the characters of the model
WordChars == DigitChars \cup UpperChars \cup LowerChars \cup {"_"}

\* [.,;:!?], lines 75 and 78
PunctChars == {".", ",", ";", ":", "!", "?"}

\* The last place of the longest run of characters of chars that starts at
\* place i of t; i - 1 when there is none.
RunEnd(t, i, chars) == i - 1 + RunLen(SubSeq(t, i, Len(t)), chars)

\* line 54: a match of (\w+)-\s*\n\s*(\w+) that starts at place s of t, with
\* the place it ends at; end is 0 when there is none
HyphenMatch(t, s) ==
    LET r == RunEnd(t, s, WordChars)
        w == RunEnd(t, r + 2, Whitespace)
        e == RunEnd(t, w + 1, WordChars)
    IN  IF /\ r >= s
           /\ r + 1 <= Len(t)
           /\ t[r + 1] = "-"
           /\ \E k \in (r + 2)..w : t[k] = "\n"
           /\ e > w
        THEN [end |-> e, joined |-> SubSeq(t, s, r) \o SubSeq(t, w + 1, e)]
        ELSE [end |-> 0, joined |-> <<>>]

RECURSIVE HyphenSub(_, _)
\* lines 56-60: re.sub(pattern, replacer, text) from place i on: the text it
\* gives and how many times replacer is called
HyphenSub(t, i) ==
    IF i > Len(t) THEN [text |-> <<>>, count |-> 0]
    ELSE IF HyphenMatch(t, i).end > 0
    THEN LET rest == HyphenSub(t, HyphenMatch(t, i).end + 1)
         IN  [text |-> HyphenMatch(t, i).joined \o rest.text, count |-> rest.count + 1]
    ELSE LET rest == HyphenSub(t, i + 1)
         IN  [text |-> <<t[i]>> \o rest.text, count |-> rest.count]

\* lines 45-60
_fix_hyphenation(text) == HyphenSub(text, 1)

RECURSIVE SubRuns(_, _, _, _)
\* re.sub of c{least,} by the characters by: lines 72 and 92
SubRuns(t, c, least, by) ==
    IF t = <<>> THEN <<>>
    ELSE IF RunLen(t, {c}) >= least
    THEN by \o SubRuns(Drop(t, RunLen(t, {c})), c, least, by)
    ELSE <<Head(t)>> \o SubRuns(Tail(t), c, least, by)

RECURSIVE SpaceBeforePunct(_)
\* line 75: re.sub(r" ([.,;:!?])", r"\1", text)
SpaceBeforePunct(t) ==
    IF Len(t) < 2 THEN t
    ELSE IF t[1] = " " /\ t[2] \in PunctChars
    THEN <<t[2]>> \o SpaceBeforePunct(Drop(t, 2))
    ELSE <<Head(t)>> \o SpaceBeforePunct(Tail(t))

RECURSIVE SpaceAfterPunct(_)
\* line 78: re.sub(r"([.,;:!?])([A-Za-z])", r"\1 \2", text)
SpaceAfterPunct(t) ==
    IF Len(t) < 2 THEN t
    ELSE IF t[1] \in PunctChars /\ t[2] \in UpperChars \cup LowerChars
    THEN <<t[1], " ", t[2]>> \o SpaceAfterPunct(Drop(t, 2))
    ELSE <<Head(t)>> \o SpaceAfterPunct(Tail(t))

\* lines 62-80
_fix_spacing(text) == SpaceAfterPunct(SpaceBeforePunct(SubRuns(text, " ", 2, <<" ">>)))

RECURSIVE SplitLines(_)
\* text.split("\n")
SplitLines(t) ==
    IF \A k \in 1..Len(t) : t[k] # "\n" THEN <<t>>
    ELSE LET k == CHOOSE k \in 1..Len(t) :
                      t[k] = "\n" /\ \A j \in 1..(k - 1) : t[j] # "\n"
         IN  <<Take(t, k - 1)>> \o SplitLines(Drop(t, k))

\* lines 82-96
_normalize_whitespace(text) ==
    LET text_lines == SplitLines(SubRuns(text, "\n", 3, <<"\n", "\n">>))
    IN  Join(<<"\n">>, [k \in 1..Len(text_lines) |-> Strip(text_lines[k])])

\* re.sub(r"\bc\b", by, text): lines 108 and 109
SubWord(t, c, by) ==
    [k \in 1..Len(t) |->
        IF /\ t[k] = c
           /\ k = 1 \/ t[k - 1] \notin WordChars
           /\ k = Len(t) \/ t[k + 1] \notin WordChars
        THEN by ELSE t[k]]

RECURSIVE SubAfterDigit(_, _, _)
\* re.sub(r"([0-9])c", r"\g<1>by", text): lines 110 and 111
SubAfterDigit(t, c, by) ==
    IF Len(t) < 2 THEN t
    ELSE IF t[1] \in DigitChars /\ t[2] = c
    THEN <<t[1], by>> \o SubAfterDigit(Drop(t, 2), c, by)
    ELSE <<Head(t)>> \o SubAfterDigit(Tail(t), c, by)

\* lines 98-118
_fix_common_ocr_errors(text) ==
    SubAfterDigit(SubAfterDigit(SubWord(SubWord(text, "l", "1"), "O", "0"),
                                "l", "1"), "O", "0")

\* process without line 32
ProcessNoReset(text) ==
    LET hyphenated == IF fix_hyphens THEN _fix_hyphenation(text)
                      ELSE [text |-> text, count |-> 0]
        spaced == IF fix_spacing THEN _fix_spacing(hyphenated.text) ELSE hyphenated.text
    IN  [text |-> _fix_common_ocr_errors(_normalize_whitespace(spaced)),
         words_corrected |-> words_corrected + hyphenated.count]

\* lines 23-43: TextPostProcessor.process, what it returns and what it leaves
\* in self.words_corrected
process(text) ==
    LET hyphenated == IF fix_hyphens THEN _fix_hyphenation(text)
                      ELSE [text |-> text, count |-> 0]
        spaced == IF fix_spacing THEN _fix_spacing(hyphenated.text) ELSE hyphenated.text
    IN  [text |-> _fix_common_ocr_errors(_normalize_whitespace(spaced)),
         words_corrected |-> 0 + hyphenated.count]

\* A call of process on one post-processor
Process(text) ==
    /\ pc = "post"
    /\ ocr_text' = text
    /\ processed_text' = process(text).text
    /\ words_corrected' = process(text).words_corrected
    /\ UNCHANGED <<pc, nonPostVars, fix_hyphens, fix_spacing, doc_pages,
                   page_metrics, documents>>

\* --------------------------------------------------------------- pipeline.py

\* lines 283-301: ProcessingPipeline._classify_ocr_line(line, page). raised: the
\* second pattern did not match and section_match.group(1) is read on None.
_classify_ocr_line(line, page) ==
    LET text == Strip(line)
        n == SectionPrefixLen(text)
        m == section_match(text)
        el(type, level) == [type |-> type, text |-> text, level |-> level,
                            page_num |-> page, bbox |-> None, metadata |-> <<>>]
    IN  IF n > 0 /\ StartsWithSpace(Drop(text, n))
        THEN [raised |-> ~m.matched, value |-> el("heading", SplitCount(m.group1))]
        ELSE IF \/ text # <<>> /\ text[1] \in BulletChars /\ StartsWithSpace(Drop(text, 1))
                \/ LET d == RunLen(text, DigitChars)
                   IN  /\ d > 0
                       /\ Len(text) > d
                       /\ text[d + 1] \in {".", ")"}
                       /\ StartsWithSpace(Drop(text, d + 1))
        THEN [raised |-> FALSE, value |-> el("list_item", NoLevel)]
        ELSE IF isupper(text) /\ Len(text) > 5 /\ Len(text) < 100
        THEN [raised |-> FALSE, value |-> el("heading", 2)]
        ELSE [raised |-> FALSE, value |-> el("paragraph", NoLevel)]

\* lines 236-240: one iteration of "for line in lines"
OcrStep ==
    /\ pc = "ocr_loop"
    /\ lines # <<>>
    /\ lines' = Tail(lines)
    /\ IF Strip(Head(lines)) = <<>>
       THEN UNCHANGED <<all_elements, pc>>
       ELSE IF _classify_ocr_line(Head(lines), page_num).raised
       THEN /\ pc' = "raised"
            /\ UNCHANGED all_elements
       ELSE /\ all_elements' = Append(all_elements,
                                      _classify_ocr_line(Head(lines), page_num).value)
            /\ pc' = pc
    /\ UNCHANGED <<elements, tables, call, idx, gammaVars, textVars, text_blocks,
                   headers, footers, page_num, run, first_slides, otherVars>>

\* the loop of lines 236-240 is over
OcrDone ==
    /\ pc = "ocr_loop"
    /\ lines = <<>>
    /\ pc' = "classified"
    /\ UNCHANGED <<pipelineVars, elements, tables, call, idx, gammaVars, textVars>>

\* lines 97-101: process_pdf is given a document; its MetricsCollector is new
ProcessPdf(pages) ==
    /\ pc = "pipeline_idle"
    /\ documents < MaxDocuments
    /\ documents' = documents + 1
    /\ doc_pages' = pages
    /\ page_metrics' = <<>>
    /\ pc' = "pages"
    /\ UNCHANGED <<nonPostVars, fix_hyphens, fix_spacing, words_corrected,
                   ocr_text, processed_text>>

\* lines 125-138 and 214-269: one page of the document, from the OCR and the
\* post-processing of its text (lines 218-231) to the PageMetrics it returns
\* (lines 261-269), which add_page appends; the classification of its lines is
\* OcrStep, of its blocks DetectStep
ProcessPage ==
    /\ pc = "pages"
    /\ Len(page_metrics) < Len(doc_pages)
    /\ LET page == doc_pages[Len(page_metrics) + 1]
       IN  /\ IF page.needs_ocr
              THEN /\ ocr_text' = page.text
                   /\ processed_text' = process(page.text).text
                   /\ words_corrected' = process(page.text).words_corrected
              ELSE UNCHANGED <<ocr_text, processed_text, words_corrected>>
           /\ page_metrics' =
                  Append(page_metrics,
                         [page_num |-> Len(page_metrics),
                          needs_ocr |-> page.needs_ocr,
                          words_corrected |-> words_corrected'])
    /\ UNCHANGED <<pc, nonPostVars, fix_hyphens, fix_spacing, doc_pages,
                   documents>>

\* lines 140 and on: the pages are done and process_pdf goes on to return
ProcessPdfDone ==
    /\ pc = "pages"
    /\ Len(page_metrics) = Len(doc_pages)
    /\ pc' = "pipeline_idle"
    /\ UNCHANGED <<nonPostVars, postVars>>

\* ---------------------------------------------------- convert_md_to_gamma.py

\* s.startswith(prefix)
StartsWith(s, prefix) == Len(s) >= Len(prefix) /\ SubSeq(s, 1, Len(prefix)) = prefix

\* the title of a divider, line 57
SECTION == <<"S", "E", "C", "T", "I", "O", "N">>

\* lines 41: the two notices; the accented letter is named
CopyrightNotices ==
    {<<"T", "e", "s", "t", "i", "n", "g", " ", "I", "T", " ",
       "C", "o", "n", "s", "u", "l", "t", "i", "n", "g">>,
     <<"p", "r", "o", "h", "i", "b", "i", "d", "a", " ", "s", "u", " ",
       "r", "e", "p", "r", "o", "d", "u", "c", "c", "i", "U+00F3", "n">>}

\* the locals slides, current_title and slide_content
MdLocals(sl, title, content) == [slides |-> sl, title |-> title, content |-> content]

\* lines 50-52, 67-69, 77-79 and 121-122: the slide is appended when it has a
\* title and content
MdFlush(m) ==
    IF m.title # None /\ m.content # <<>>
    THEN MdLocals(Append(m.slides, [title |-> m.title, content |-> m.content]),
                  m.title, <<>>)
    ELSE m

\* lines 89-92 and 115-118: the slide is appended when it is full and has a title
MdAutoFlush(m, full) ==
    IF Len(m.content) >= full /\ m.title # None
    THEN MdLocals(Append(m.slides, [title |-> m.title, content |-> m.content]),
                  m.title, <<>>)
    ELSE m

\* lines 48-60, 65-70 and 75-80: a heading that says text; only a "# " heading
\* makes a divider of a section number
MdHeading(m, text, h1) ==
    IF Len(text) > 3
    THEN IF h1 /\ RunLen(text, DigitChars) > 0
               /\ RunLen(text, DigitChars) < Len(text)
               /\ text[RunLen(text, DigitChars) + 1] = "."
         THEN MdLocals(Append(MdFlush(m).slides, [title |-> SECTION, content |-> <<text>>]),
                       None, MdFlush(m).content)
         ELSE MdLocals(MdFlush(m).slides, text, MdFlush(m).content)
    ELSE m

\* lines 85-86 and 97-98: a list item that says text
MdItem(m, text) == MdLocals(m.slides, m.title, Append(m.content, <<"-", " ">> \o text))

\* line.split(): the runs of characters that are not whitespace
Words(s) ==
    LET starts == {k \in 1..Len(s) :
                      s[k] \notin Whitespace /\ (k = 1 \/ s[k - 1] \in Whitespace)}
        start(i) == CHOOSE k \in starts : Cardinality({j \in starts : j < k}) = i - 1
        end(k) == CHOOSE e \in k..Len(s) :
                      /\ \A j \in k..e : s[j] \notin Whitespace
                      /\ e = Len(s) \/ s[e + 1] \in Whitespace
    IN  [i \in 1..Cardinality(starts) |-> SubSeq(s, start(i), end(start(i)))]

\* lines 102-118: a paragraph
MdParagraph(m, line) ==
    IF Len(line) > 20
    THEN MdAutoFlush(
             IF Len(line) < 300
             THEN MdLocals(m.slides, m.title, Append(m.content, <<"-", " ">> \o line))
             ELSE IF Len(Words(line)) > 30
             THEN MdLocals(m.slides, m.title,
                           Append(m.content,
                                  <<"-", " ">> \o Join(<<" ">>, Take(Words(line), 30))
                                      \o <<".", ".", ".">>))
             ELSE m,
             5)
    ELSE m

\* lines 30-118: the body of "for line in lines" on one line; current_slide is
\* always empty
MdRead(m, raw) ==
    LET line == Strip(raw)
        digits == RunLen(line, DigitChars)
    IN  IF line = <<>> /\ m.content = <<>> THEN m
        ELSE IF StartsWith(line, <<"<", "!", "-", "-">>)
                    /\ Contains(line, <<"P", "a", "g", "e">>) THEN m
        ELSE IF \E notice \in CopyrightNotices : Contains(line, notice) THEN m
        ELSE IF StartsWith(line, <<"#", " ">>)
        THEN MdHeading(m, Strip(Drop(line, 2)), TRUE)
        ELSE IF StartsWith(line, <<"#", "#", " ">>)
        THEN MdHeading(m, Strip(Drop(line, 3)), FALSE)
        ELSE IF \/ StartsWith(line, <<"#", "#", "#", " ">>)
                \/ StartsWith(line, <<"#", "#", "#", "#", " ">>)
        THEN MdHeading(m, Strip(LStrip(line, {"#"})), FALSE)
        ELSE IF StartsWith(line, <<"-", " ">>) \/ StartsWith(line, <<"*", " ">>)
        THEN IF Len(Strip(Drop(line, 2))) > 2
             THEN MdAutoFlush(MdItem(m, Strip(Drop(line, 2))), 6)
             ELSE m
        ELSE IF digits > 0 /\ StartsWith(Drop(line, digits), <<".", " ">>)
        THEN IF Len(Strip(Drop(line, digits + 2))) > 2
             THEN MdItem(m, Strip(Drop(line, digits + 2)))
             ELSE m
        ELSE IF /\ line # <<>>
                /\ ~StartsWith(line, <<"|">>)
                /\ ~StartsWith(line, <<"-", "-", "-">>)
        THEN MdParagraph(m, line)
        ELSE m

\* lines 29-118: one turn of "for line in lines"
MdLine ==
    /\ pc = "md_lines"
    /\ md_i < Len(md_lines)
    /\ md_i' = md_i + 1
    /\ LET m == MdRead(MdLocals(md_slides, md_title, slide_content), md_lines[md_i + 1])
       IN  /\ md_slides' = m.slides
           /\ md_title' = m.title
           /\ slide_content' = m.content
    /\ UNCHANGED <<pc, nonMdVars, md_lines, merged_slides, written>>

\* how many slides at the head of sl have the title of the first
SameTitleRun(sl) ==
    IF \A k \in 1..Len(sl) : sl[k].title = sl[1].title THEN Len(sl)
    ELSE (CHOOSE k \in 1..Len(sl) :
             sl[k].title # sl[1].title /\ \A j \in 1..(k - 1) : sl[j].title = sl[1].title) - 1

RECURSIVE MdMerge(_)
\* lines 125-134: consecutive slides with the same title become one
MdMerge(sl) ==
    IF sl = <<>> THEN <<>>
    ELSE <<[title |-> sl[1].title,
            content |-> Concat([k \in 1..SameTitleRun(sl) |-> sl[k].content])]>>
         \o MdMerge(Drop(sl, SameTitleRun(sl)))

\* lines 120-134: the last slide is flushed and the slides are merged
MdMergeSlides ==
    /\ pc = "md_lines"
    /\ md_i = Len(md_lines)
    /\ md_slides' = MdFlush(MdLocals(md_slides, md_title, slide_content)).slides
    /\ merged_slides' = MdMerge(md_slides')
    /\ pc' = "md_write"
    /\ UNCHANGED <<nonMdVars, md_lines, md_i, md_title, slide_content, written>>

\* " (cont.)", line 164
ContSuffix == <<" ", "(", "c", "o", "n", "t", ".", ")">>

RECURSIVE MdChunksOfNine(_, _)
\* MdChunks with a chunk_size of 9
MdChunksOfNine(title, remaining) ==
    IF remaining = <<>> THEN <<>>
    ELSE <<Block("slide", title \o ContSuffix, Take(remaining, 9), 0)>>
         \o MdChunksOfNine(title, Drop(remaining, 9))

RECURSIVE MdChunks(_, _)
\* lines 161-167: the continuation slides, eight items each
MdChunks(title, remaining) ==
    IF remaining = <<>> THEN <<>>
    ELSE <<Block("slide", title \o ContSuffix, Take(remaining, 8), 0)>>
         \o MdChunks(title, Drop(remaining, 8))

\* lines 147-167: what one merged slide writes
MdWriteSlide(slide) ==
    IF slide.title = SECTION THEN <<Block("section", slide.content[1], <<>>, 0)>>
    ELSE IF slide.content # <<>>
    THEN <<Block("slide", slide.title, Take(slide.content, 8), 0)>>
         \o MdChunks(slide.title, Drop(slide.content, 8))
    ELSE <<>>

\* lines 137-174: the file is written
MdWrite ==
    /\ pc = "md_write"
    /\ written' = <<Block("cover", <<>>, <<>>, 0)>>
                  \o Concat([k \in 1..Len(merged_slides) |-> MdWriteSlide(merged_slides[k])])
                  \o <<Block("closing", Gracias, <<>>, Len(merged_slides))>>
    /\ pc' = "md_done"
    /\ UNCHANGED <<nonMdVars, md_lines, md_i, md_slides, md_title, slide_content,
                   merged_slides>>

\* ------------------------------------------------------------------- cli.py

\* lines 199-219: the files go to one of the two batch functions
Dispatch ==
    /\ pc = "cli"
    /\ pc' = IF workers > 1 /\ Len(pdf_files) > 1 THEN "parallel" ELSE "sequential"
    /\ UNCHANGED <<nonCliVars, cliVars>>

\* One turn of the loop of _process_sequential without its try statement
SequentialStepUncaught ==
    /\ pc = "sequential"
    /\ Len(handled) < Len(pdf_files)
    /\ LET i == Len(handled) + 1
       IN  /\ submitted' = [submitted EXCEPT ![i] = @ + 1]
           /\ IF pdf_files[i] = "raises"
              THEN /\ pc' = "raised"
                   /\ UNCHANGED <<handled, reported>>
              ELSE /\ handled' = Append(handled, i)
                   /\ UNCHANGED <<pc, reported>>
    /\ UNCHANGED <<nonCliVars, workers, pdf_files, futures, pbar>>

\* lines 254-269: one turn of "for pdf_file in pdf_files"
SequentialStep ==
    /\ pc = "sequential"
    /\ Len(handled) < Len(pdf_files)
    /\ LET i == Len(handled) + 1
       IN  /\ submitted' = [submitted EXCEPT ![i] = @ + 1]
           /\ reported' = IF pdf_files[i] = "raises" THEN reported \cup {i} ELSE reported
           /\ handled' = Append(handled, i)
    /\ UNCHANGED <<pc, nonCliVars, workers, pdf_files, futures, pbar>>

\* lines 249-254: the loop is over and so is the Progress block
SequentialReturn ==
    /\ pc = "sequential"
    /\ Len(handled) = Len(pdf_files)
    /\ pc' = "complete"
    /\ UNCHANGED <<nonCliVars, cliVars>>

\* lines 296-308: every file is submitted to the executor
SubmitAll ==
    /\ pc = "parallel"
    /\ submitted' = [i \in 1..Len(pdf_files) |-> submitted[i] + 1]
    /\ futures' = [i \in 1..Len(pdf_files) |-> "pending"]
    /\ pc' = "as_completed"
    /\ UNCHANGED <<nonCliVars, workers, pdf_files, handled, reported, pbar>>

\* ProcessPoolExecutor(max_workers=workers): a free worker takes the work item
\* submitted first
WorkerStart ==
    /\ pc = "as_completed"
    /\ Cardinality({i \in 1..Len(futures) : futures[i] = "running"}) < workers
    /\ \E i \in 1..Len(futures) :
          /\ futures[i] = "pending"
          /\ \A j \in 1..(i - 1) : futures[j] # "pending"
          /\ futures' = [futures EXCEPT ![i] = "running"]
    /\ UNCHANGED <<pc, nonCliVars, workers, pdf_files, submitted, handled, reported, pbar>>

\* process_pdf returns or raises in its worker: the future is finished
WorkerFinish(i) ==
    /\ pc = "as_completed"
    /\ futures[i] = "running"
    /\ futures' = [futures EXCEPT ![i] = "finished"]
    /\ UNCHANGED <<pc, nonCliVars, workers, pdf_files, submitted, handled, reported, pbar>>

\* lines 310-319: as_completed yields a finished future and the body of the loop
\* runs on it
Completed(i) ==
    /\ pc = "as_completed"
    /\ futures[i] = "finished"
    /\ futures' = [futures EXCEPT ![i] = "yielded"]
    /\ reported' = IF pdf_files[i] = "raises" THEN reported \cup {i} ELSE reported
    /\ pbar' = pbar + 1
    /\ handled' = Append(handled, i)
    /\ UNCHANGED <<pc, nonCliVars, workers, pdf_files, submitted>>

\* lines 296-310: as_completed has yielded every future; the tqdm bar and the
\* executor are closed
ParallelReturn ==
    /\ pc = "as_completed"
    /\ \A i \in 1..Len(futures) : futures[i] = "yielded"
    /\ pc' = "complete"
    /\ UNCHANGED <<nonCliVars, cliVars>>

\* --------------------------------------------------------- specifications

\* LayoutRules(), as LayoutDetector.__init__ builds it (detector.py line 26)
InitRules ==
    /\ title_min_size = DefaultTitleMinSize
    /\ heading_min_size = DefaultHeadingMinSize
    /\ body_size = DefaultBodySize

\* detect_headers_footers is not called
InitNoFilter ==
    /\ blocks_by_page = <<>>
    /\ threshold = DefaultThreshold

\* TextPostProcessor(), as ProcessingPipeline.__init__ builds it (pipeline.py
\* line 67), and no document yet
InitNoPost ==
    /\ fix_hyphens = TRUE
    /\ fix_spacing = TRUE
    /\ words_corrected = 0
    /\ ocr_text = <<>>
    /\ processed_text = <<>>
    /\ doc_pages = <<>>
    /\ page_metrics = <<>>
    /\ documents = 0

\* The command line is not used
InitNoCli ==
    /\ workers = 1
    /\ pdf_files = <<>>
    /\ submitted = <<>>
    /\ futures = <<>>
    /\ handled = <<>>
    /\ reported = {}
    /\ pbar = 0

\* convert_md_to_gamma is not called
InitNoMd ==
    /\ md_lines = <<>>
    /\ md_i = 0
    /\ md_slides = <<>>
    /\ md_title = None
    /\ slide_content = <<>>
    /\ merged_slides = <<>>
    /\ written = <<>>

\* The parts of the program that a specification does not run
InitOthers ==
    /\ InitNoFilter
    /\ InitNoPost
    /\ InitNoCli
    /\ InitNoMd

\* Both exporters before their first line
InitExporters ==
    /\ call = "none"
    /\ idx = 0
    /\ slides = <<>>
    /\ current_title = None
    /\ current_bullets = <<>>
    /\ current_paragraphs = <<>>
    /\ out = <<>>
    /\ current_slide_title = None
    /\ current_content = <<>>
    /\ slide_count = 0

\* No page is being classified
InitNoPage ==
    /\ text_blocks = <<>>
    /\ headers = {}
    /\ footers = {}
    /\ lines = <<>>
    /\ page_num = 0

\* Neither an exporter nor a classifier nor the merger is running
InitCore ==
    /\ elements = <<>>
    /\ tables = <<>>
    /\ InitExporters
    /\ InitNoPage
    /\ all_elements = <<>>
    /\ run = 1
    /\ first_slides = <<>>

\* An exporter is about to be called on a list given as it is
InitLocals ==
    /\ pc = "idle"
    /\ InitExporters
    /\ InitRules
    /\ InitOthers
    /\ InitNoPage
    /\ all_elements = <<>>
    /\ run = 1
    /\ first_slides = <<>>

\* Every kind of element the classifiers produce, either exporter, no table. A
\* heading always carries a level there (rules.py:89-108, pipeline.py:290-298).
AllKinds ==
    {"title", "h1", "h2", "h3", "h4", "li", "li_short", "p", "p_short", "p_long"}

Init ==
    /\ elements \in ElementLists(AllKinds, MaxElems)
    /\ tables = <<>>
    /\ InitLocals

Next ==
    \/ GammaStart
    \/ GammaStep
    \/ GammaFinish
    \/ TextStart
    \/ TextStep
    \/ TextFinish

Spec == Init /\ [][Next]_vars

\* GammaExporter on longer lists: enough list items and paragraphs under a title
\* to reach both capacities.
CapacityKinds == {"h2", "li", "p"}

InitCapacity ==
    /\ elements \in ElementLists(CapacityKinds, MaxCapElems)
    /\ tables = <<>>
    /\ InitLocals

NextGamma ==
    \/ GammaStart
    \/ GammaStep
    \/ GammaFinish

SpecCapacity == InitCapacity /\ [][NextGamma]_vars

\* GammaExporter on lists that mix section dividers, slide titles and content,
\* with tables.
SectionKinds == {"h1", "h2", "h3", "h4", "li", "p"}

InitSections ==
    /\ elements \in ElementLists(SectionKinds, MaxSectionElems)
    /\ tables \in TableLists(MaxTables)
    /\ InitLocals

SpecSections == InitSections /\ [][NextGamma]_vars

\* GammaTextExporter on long lists: list items before any heading, then a few
\* more elements.
TailKinds == {"h1", "h2", "li"}

InitTextLong ==
    /\ \E k \in 0..MaxOrphans : \E tail \in ElementLists(TailKinds, MaxTail) :
          elements = [i \in 1..(k + Len(tail)) |->
                        IF i <= k THEN MkElement("li", i)
                        ELSE [tail[i - k] EXCEPT !.text =
                                 SubSeq(@, 1, Len(@) - 1) \o <<Mark(i)>>]]
    /\ tables = <<>>
    /\ InitLocals

NextText ==
    \/ TextStart
    \/ TextStep
    \/ TextFinish

SpecTextLong == InitTextLong /\ [][NextText]_vars

\* merge_elements, then GammaExporter, on lists spread over two pages, twice
\* over on the same list. The heading without a level is what a caller gets
\* from LayoutElement(type="heading", ...) when it passes no level.
MergeKinds == {"h2", "hNone", "li", "p"}

MergePages == {0, 1}

InitMerge ==
    /\ all_elements \in PagedLists(MergeKinds, MergePages, MaxMergeElems)
    /\ elements = <<>>
    /\ tables = <<>>
    /\ pc = "to_merge"
    /\ InitExporters
    /\ InitRules
    /\ InitOthers
    /\ InitNoPage
    /\ run = 1
    /\ first_slides = <<>>

NextMerge ==
    \/ Merge
    \/ GammaStart
    \/ GammaStep
    \/ GammaFinish
    \/ Rerun

SpecMerge == InitMerge /\ [][NextMerge]_vars

\* The texts of the fragments classified: section numbers of every depth,
\* bullets at every indentation, and one text for each way a rule can apply or
\* just fail to.
SectionText(d) ==
    <<"1">> \o Join(<<>>, [i \in 1..(d - 1) |-> <<".", "2">>]) \o <<" ", "S", "e", "c">>

BulletText(n) == Rep(" ", n) \o <<"-", " ", "i", "t", "e", "m">>

SampleLines ==
    {SectionText(d) : d \in 1..MaxDepth} \cup {BulletText(n) : n \in 0..MaxIndent} \cup
    {
     <<"1", ".", " ", "o", "n", "e">>,
     <<"2", ")", " ", "t", "w", "o">>,
     <<"a", ".", " ", "a", "l", "p", "h", "a">>,
     <<"B", ")", " ", "b", "e", "t", "a">>,
     <<"-", "i", "t", "e", "m">>,
     <<"1", ".", "2", " ", "S", "c", "o", "p", "e">>,
     <<"2", ".", "3", ".", "4", " ", "S", "u", "b", "s", "e", "c", "t", "i", "o", "n">>,
     <<"1", ".", "2", "S", "c", "o", "p", "e">>,
     <<"1", ".", ".", "2", " ", "x">>,
     <<"1", "2">>,
     <<"P", "l", "a", "i", "n", " ", "t", "e", "x", "t">>,
     <<"I", "N", "T", "R", "O", "D", "U", "C", "T", "I", "O", "N">>,
     <<"T", "O", "C">>,
     <<>>,
     \* 100 characters and more
     Rep("y", 100),
     Rep("Y", 100),
     <<"1", ".", "2", " ">> \o Rep("y", 100)}

\* A block of a PDF page may hold line breaks, a line of OCR text does not.
SampleTexts ==
    SampleLines \cup
    {<<" ", "I", "n", "t", "r", "o", "\n">>,
     <<"1", ".", "2", " ", "S", "c", "o", "p", "e", "\n", "m", "o", "r", "e">>}

FontSizes == 9..MaxFontSize

\* One fragment of a page, classified by _detect_rules when the page has native
\* text and by _classify_ocr_line when it needs OCR (pipeline.py lines 215-247).
InitFragment ==
    /\ \E t \in SampleTexts, f \in FontSizes, b \in BOOLEAN, needs_ocr \in BOOLEAN :
          IF needs_ocr
          THEN /\ t \in SampleLines
               /\ f = DefaultBodySize
               /\ b = FALSE
               /\ lines = <<t>>
               /\ text_blocks = <<>>
               /\ pc = "ocr_loop"
          ELSE /\ lines = <<>>
               /\ text_blocks = <<TextBlock(t, f, b, 0, 1)>>
               /\ pc = "to_detect"
    /\ headers = {}
    /\ footers = {}
    /\ page_num = 0
    /\ elements = <<>>
    /\ tables = <<>>
    /\ all_elements = <<>>
    /\ run = 1
    /\ first_slides = <<>>
    /\ InitExporters
    /\ InitRules
    /\ InitOthers

NextPage ==
    \/ DetectStart
    \/ DetectStep
    \/ DetectReturn
    \/ OcrStep
    \/ OcrDone

SpecFragment == InitFragment /\ [][NextPage]_vars

\* _detect_rules on a page of several blocks, some of them the header or the
\* footer that detect_headers_footers found (pipeline.py lines 122-132).
HeaderText == <<"H", "d", "r">>

FooterText == <<"F", "t", "r">>

PageTexts ==
    {<<" ">> \o HeaderText, FooterText \o <<"\n">>, <<"B", "o", "d", "y">>}

InitDetect ==
    /\ \E m \in 0..MaxBlocks : \E ts \in [1..m -> PageTexts] :
          text_blocks = [i \in 1..m |-> TextBlock(ts[i], DefaultBodySize, FALSE, 0, i)]
    /\ headers \in SUBSET {HeaderText, FooterText}
    /\ footers \in SUBSET {HeaderText, FooterText}
    /\ lines = <<>>
    /\ page_num = 0
    /\ pc = "to_detect"
    /\ elements = <<>>
    /\ tables = <<>>
    /\ all_elements = <<>>
    /\ run = 1
    /\ first_slides = <<>>
    /\ InitExporters
    /\ InitRules
    /\ InitOthers

NextDetect ==
    \/ DetectStart
    \/ DetectStep
    \/ DetectReturn

SpecDetect == InitDetect /\ [][NextDetect]_vars

\* detect_headers_footers on the pages of a document: pages without a block,
\* with one block, with a header above a footer (in either order of the list),
\* and with two blocks at one height.
PageSamples ==
    {<<>>,
     <<TextBlock(<<" ">> \o HeaderText, DefaultBodySize, FALSE, 0, 1)>>,
     <<TextBlock(<<"B", "o", "d", "y">>, DefaultBodySize, FALSE, 0, 1)>>,
     <<TextBlock(HeaderText, DefaultBodySize, FALSE, 0, 1),
       TextBlock(FooterText \o <<"\n">>, DefaultBodySize, FALSE, 0, 2)>>,
     <<TextBlock(FooterText, DefaultBodySize, FALSE, 0, 2),
       TextBlock(HeaderText, DefaultBodySize, FALSE, 0, 1)>>,
     <<TextBlock(<<"B", "o", "d", "y">>, DefaultBodySize, FALSE, 0, 1),
       TextBlock(FooterText, DefaultBodySize, FALSE, 0, 1)>>}

Thresholds == {50, DefaultThreshold, 100}

InitFilter ==
    /\ \E m \in 0..MaxPages : blocks_by_page \in [1..m -> PageSamples]
    /\ threshold \in Thresholds
    /\ pc = "to_filter"
    /\ headers = {}
    /\ footers = {}
    /\ text_blocks = <<>>
    /\ lines = <<>>
    /\ page_num = 0
    /\ elements = <<>>
    /\ tables = <<>>
    /\ all_elements = <<>>
    /\ run = 1
    /\ first_slides = <<>>
    /\ InitExporters
    /\ InitRules
    /\ InitNoPost
    /\ InitNoCli
    /\ InitNoMd

NextFilter == DetectHeadersFooters

SpecFilter == InitFilter /\ [][NextFilter]_vars

\* Texts for the OCR engine to return: word, hyphen at a line break, space and
\* hyphen, put together
OcrPieces == {<<"a">>, <<"-", "\n">>, <<" ">>, <<"-">>}

OcrTexts == {Concat(parts) : parts \in UNION {[1..n -> OcrPieces] : n \in 0..MaxPieces}}

\* One TextPostProcessor, built with any two switches and called again and again
InitPost ==
    /\ fix_hyphens \in BOOLEAN
    /\ fix_spacing \in BOOLEAN
    /\ words_corrected = 0
    /\ ocr_text = <<>>
    /\ processed_text = <<>>
    /\ doc_pages = <<>>
    /\ page_metrics = <<>>
    /\ documents = 0
    /\ pc = "post"
    /\ InitCore
    /\ InitRules
    /\ InitNoFilter
    /\ InitNoCli
    /\ InitNoMd

NextPost == \E text \in OcrTexts : Process(text)

SpecPost == InitPost /\ [][NextPost]_vars

\* A page of a document: with native text, or an image whose text is read
PageKinds ==
    {[needs_ocr |-> FALSE, text |-> <<>>],
     [needs_ocr |-> TRUE, text |-> <<"a", "-", "\n", "a">>],
     [needs_ocr |-> TRUE, text |-> <<"a", "a">>]}

Documents == UNION {[1..n -> PageKinds] : n \in 1..MaxDocPages}

\* One pipeline object that is given one document after the other
InitPages ==
    /\ pc = "pipeline_idle"
    /\ InitCore
    /\ InitRules
    /\ InitOthers

NextPages ==
    \/ \E pages \in Documents : ProcessPdf(pages)
    \/ ProcessPage
    \/ ProcessPdfDone

SpecPages == InitPages /\ [][NextPages]_vars

\* The command line with one file or more, each of which process_pdf returns
\* or raises on, and any number of workers
InitCli ==
    /\ pc = "cli"
    /\ workers \in 1..MaxWorkers
    /\ \E n \in 1..MaxFiles :
          /\ pdf_files \in [1..n -> {"returns", "raises"}]
          /\ submitted = [i \in 1..n |-> 0]
          /\ futures = [i \in 1..n |-> "none"]
    /\ handled = <<>>
    /\ reported = {}
    /\ pbar = 0
    /\ InitCore
    /\ InitRules
    /\ InitNoFilter
    /\ InitNoPost
    /\ InitNoMd

NextCli ==
    \/ Dispatch
    \/ SequentialStep
    \/ SequentialReturn
    \/ SubmitAll
    \/ WorkerStart
    \/ \E i \in 1..Len(futures) : WorkerFinish(i)
    \/ \E i \in 1..Len(futures) : Completed(i)
    \/ ParallelReturn

SpecCli == InitCli /\ [][NextCli]_vars

\* The interpreter goes on while it can, a free worker takes a pending work item,
\* and process_pdf returns or raises on every file.
FairSpecCli == SpecCli /\ WF_vars(NextCli)

\* Lines of a Markdown file: two numbered and one plain "# " heading, a "## "
\* heading, a bullet, a paragraph and an empty line
MdSamples ==
    {<<"#", " ", "1", ".", " ", "I", "n", "t", "r", "o">>,
     <<"#", " ", "2", ".", " ", "S", "c", "o", "p", "e">>,
     <<"#", " ", "T", "i", "t", "l", "e">>,
     <<"#", "#", " ", "T", "o", "p", "i", "c">>,
     <<"-", " ", "f", "i", "r", "s", "t">>,
     <<"A", " ", "p", "a", "r", "a", "g", "r", "a", "p", "h", " ", "o", "f", " ",
       "t", "e", "x", "t", ".", ".", ".">>,
     <<>>}

\* the i-th line of a list, numbered or with a bullet
MdListLine(numbered, i) ==
    (IF numbered THEN <<"1", ".", " ">> ELSE <<"-", " ">>)
        \o <<"i", "t", "e", "m", " ", Mark(i)>>

\* The file after line 23: a few lines, then a list
InitMd ==
    /\ \E n \in 0..MaxMdLines, k \in 0..MaxMdItems, numbered \in BOOLEAN :
          \E head \in [1..n -> MdSamples] :
              md_lines = head \o [i \in 1..k |-> MdListLine(numbered, i)]
    /\ md_i = 0
    /\ md_slides = <<>>
    /\ md_title = None
    /\ slide_content = <<>>
    /\ merged_slides = <<>>
    /\ written = <<>>
    /\ pc = "md_lines"
    /\ InitCore
    /\ InitRules
    /\ InitNoFilter
    /\ InitNoPost
    /\ InitNoCli

NextMd ==
    \/ MdLine
    \/ MdMergeSlides
    \/ MdWrite

SpecMd == InitMd /\ [][NextMd]_vars

\* ----------------------------------------------------------------- claims

\* What a list item or a paragraph contributes to a slide: the cleaned text.
ItemText(e) ==
    IF e.type = "list_item" THEN LStrip(e.text, BulletStripChars) ELSE Strip(e.text)

IsContent(e) == e.type \in {"list_item", "paragraph"}

Significant(e) ==
    \/ e.type = "list_item" /\ Len(ItemText(e)) > 2
    \/ e.type = "paragraph" /\ Len(ItemText(e)) > 20

\* Element i is consumed while a slide title is open: a heading of level 2 or 3
\* precedes it with no heading of level 1 in between.
OpenAt(i) ==
    \E j \in 1..(i - 1) :
        /\ elements[j].type = "heading"
        /\ elements[j].level \in {2, 3}
        /\ \A k \in (j + 1)..(i - 1) :
              ~(elements[k].type = "heading" /\ elements[k].level = 1)

BulletsSlides == SelectSeq(slides, LAMBDA s : s.type = "bullets")

TextSlides == SelectSeq(out, LAMBDA b : b.kind = "slide")

\* A slide marked as a continuation of the one before it.
IsContinuation(s) == "continuation" \in DOMAIN s /\ s.continuation = TRUE

C1_Input ==
    /\ Len(elements) = 8
    /\ elements[1].type = "heading" /\ elements[1].level = 2
    /\ \A i \in 2..8 : elements[i].type = "list_item" /\ Significant(elements[i])

\* The part of C1 about the grouping alone: two content slides titled T, the first
\* six bullets and then the seventh, in input order.
C1_TwoGroups ==
    /\ Len(BulletsSlides) = 2
    /\ \A k \in 1..2 : BulletsSlides[k].title = elements[1].text
    /\ BulletsSlides[1].items = [k \in 1..6 |-> ItemText(elements[k + 1])]
    /\ BulletsSlides[2].items = <<ItemText(elements[8])>>

\* C1: a level-2 heading T followed by exactly 7 significant list items gives
\* exactly two content slides titled T, holding the first 6 bullets and the last
\* one in input order, the second marked as a continuation.
C1_GroupingWithContinuation ==
    (call = "gamma" /\ pc = "done" /\ C1_Input) =>
        (C1_TwoGroups /\ IsContinuation(BulletsSlides[2]))

\* The items of slide s are paragraphs of the input.
FromParagraphs(s) ==
    \E i \in 1..Len(elements) :
        /\ elements[i].type = "paragraph"
        /\ \E k \in 1..Len(s.items) : s.items[k] = Strip(elements[i].text)

\* C2: every content slide of GammaExporter holds at most 6 items, at most 3 when
\* they are paragraphs, and between two elements the pending bullet list holds at
\* most 6 entries and the pending paragraph list at most 3.
C2_SlideCapacity ==
    /\ \A k \in 1..Len(BulletsSlides) :
          /\ Len(BulletsSlides[k].items) <= 6
          /\ FromParagraphs(BulletsSlides[k]) => Len(BulletsSlides[k].items) <= 3
    /\ Len(current_bullets) <= 6
    /\ Len(current_paragraphs) <= 3

\* A full bullet slide and a full paragraph slide were both emitted.
C2_Witness ==
    /\ call = "gamma" /\ pc = "done"
    /\ \E k \in 1..Len(BulletsSlides) :
          Len(BulletsSlides[k].items) = 6 /\ ~FromParagraphs(BulletsSlides[k])
    /\ \E k \in 1..Len(elements) : elements[k].type = "paragraph"

\* C3: every slide GammaTextExporter writes holds at most 8 content items.
C3_TextSlideCapacity ==
    \A k \in 1..Len(TextSlides) : Len(TextSlides[k].content) <= 8

\* C4: a list item or paragraph consumed by GammaTextExporter while no slide title
\* is open appears in no slide of the file.
C4_TextOrphansDiscarded ==
    call = "text" =>
        \A i \in 1..Len(elements) :
            (IsContent(elements[i]) /\ ~OpenAt(i)) =>
                \A k \in 1..Len(TextSlides) :
                    \A c \in 1..Len(TextSlides[k].content) :
                        ~Contains(TextSlides[k].content[c], ItemText(elements[i]))

\* s without its leading and trailing whitespace, written without recursion
Trimmed(s) ==
    LET ws == {" ", "\t", "\n", "\r", "\f"}
    IN  IF \A k \in 1..Len(s) : s[k] \in ws THEN <<>>
        ELSE SubSeq(s,
                 CHOOSE a \in 1..Len(s) :
                     s[a] \notin ws /\ \A k \in 1..(a - 1) : s[k] \in ws,
                 CHOOSE b \in 1..Len(s) :
                     s[b] \notin ws /\ \A k \in (b + 1)..Len(s) : s[k] \in ws)

\* text is on a content slide of sl: in an item, or in the speaker notes
GammaAppears(text, sl) ==
    \E k \in 1..Len(sl) :
        /\ sl[k].type = "bullets"
        /\ \/ \E c \in 1..Len(sl[k].items) : Contains(sl[k].items[c], text)
           \/ Contains(sl[k].notes, text)

\* text is on a slide of the file f
TextAppears(text, f) ==
    \E k \in 1..Len(f) :
        /\ f[k].kind = "slide"
        /\ \E c \in 1..Len(f[k].content) : Contains(f[k].content[c], text)

\* Element i follows a level-1 heading with no heading of level 2 or 3 between.
AfterHeading1(i) ==
    \E j \in 1..(i - 1) :
        /\ elements[j].type = "heading" /\ elements[j].level = 1
        /\ \A k \in (j + 1)..(i - 1) :
              ~(elements[k].type = "heading" /\ elements[k].level \in {2, 3})

\* C5: at a heading of level 1, GammaExporter emits the pending content of an open
\* titled group as a content slide, then exactly one section slide titled with the
\* heading's text, and leaves no title open; from there until a heading of level 2
\* or 3, no step emits a content slide and the list items and paragraphs consumed
\* never reach a slide.
C5_Heading1ClosesGroup ==
    [][
       /\ (pc = "gamma_loop" /\ idx <= Len(elements)
              /\ elements[idx].type = "heading" /\ elements[idx].level = 1) =>
            LET pending == /\ current_title # None
                           /\ (current_bullets # <<>> \/ current_paragraphs # <<>>)
                n == Len(slides)
            IN  /\ Len(slides') = n + (IF pending THEN 2 ELSE 1)
                /\ SubSeq(slides', 1, n) = slides
                /\ pending =>
                     /\ slides'[n + 1].type = "bullets"
                     /\ slides'[n + 1].title = current_title
                     /\ \A k \in 1..Len(current_bullets) :
                           GammaAppears(current_bullets[k], <<slides'[n + 1]>>)
                     /\ \A k \in 1..Len(current_paragraphs) :
                           GammaAppears(current_paragraphs[k], <<slides'[n + 1]>>)
                /\ slides'[Len(slides')].type = "section"
                /\ slides'[Len(slides')].title = elements[idx].text
                /\ current_title' = None
       /\ (pc = "gamma_loop" /\ idx <= Len(elements) /\ AfterHeading1(idx)) =>
            /\ current_title = None
            /\ \A k \in (Len(slides) + 1)..Len(slides') : slides'[k].type # "bullets"
            /\ ~(elements[idx].type = "heading" /\ elements[idx].level \in {1, 2, 3}) =>
                  (slides' = slides /\ current_title' = None)
       /\ (pc = "gamma_loop" /\ idx > Len(elements) /\ AfterHeading1(idx)) =>
            \A k \in (Len(slides) + 1)..Len(slides') : slides'[k].type # "bullets"
       /\ \A i \in 1..Len(elements) :
            (IsContent(elements[i]) /\ AfterHeading1(i)) =>
                ~GammaAppears(ItemText(elements[i]), slides')
    ]_vars

\* A level-1 heading closed a group with pending content, and significant content
\* followed it.
C5_Witness ==
    /\ call = "gamma" /\ pc = "done"
    /\ \E j \in 2..(Len(elements) - 1) :
          /\ elements[j].type = "heading" /\ elements[j].level = 1
          /\ OpenAt(j)
          /\ IsContent(elements[j - 1]) /\ Significant(elements[j - 1])
          /\ IsContent(elements[j + 1]) /\ Significant(elements[j + 1])
          /\ \E k \in 2..Len(slides) :
                /\ slides[k].type = "section" /\ slides[k].title = elements[j].text
                /\ slides[k - 1].type = "bullets"

C6_Input == Len(elements) = 1 /\ elements[1].type = "heading" /\ elements[1].level = 1

\* C6: a single level-1 heading gives, besides the cover slide, exactly one section
\* slide titled with the heading's text and no content slide.
C6_SingleHeading1 ==
    (call = "gamma" /\ pc = "done" /\ C6_Input) =>
        LET rest == SelectSeq(slides, LAMBDA sl : sl.type \notin {"cover", "table"})
        IN  /\ slides[1].type = "cover"
            /\ Len(rest) = 1
            /\ rest[1].type = "section"
            /\ rest[1].title = elements[1].text

C6_Witness == call = "gamma" /\ pc = "done" /\ C6_Input /\ Len(slides) >= 2

ShortParagraph(e) == e.type = "paragraph" /\ Len(Trimmed(e.text)) <= 20

\* C7: a paragraph whose trimmed text has 20 characters or fewer is on no slide of
\* either exporter, neither as an item nor in speaker notes.
C7_ShortParagraphsDropped ==
    \A i \in 1..Len(elements) :
        ShortParagraph(elements[i]) =>
            /\ ~GammaAppears(Trimmed(elements[i].text), slides)
            /\ ~TextAppears(Trimmed(elements[i].text), out)

\* A short paragraph was consumed under an open title that did get a slide.
C7_Witness ==
    /\ pc = "done"
    /\ \E i \in 2..Len(elements) :
          /\ ShortParagraph(elements[i]) /\ elements[i].text # Trimmed(elements[i].text)
          /\ OpenAt(i)
          /\ \/ call = "gamma" /\ Len(BulletsSlides) >= 1
             \/ call = "text" /\ Len(TextSlides) >= 1

\* No significant list item or paragraph follows element i.
NothingSignificantAfter(i) ==
    \A j \in (i + 1)..Len(elements) : ~Significant(elements[j])

\* The GammaExporter half of C8.
C8_GammaNoEmptyGroup ==
    /\ \A k \in 1..Len(BulletsSlides) : Len(BulletsSlides[k].items) >= 1
    /\ pc = "done" =>
          \A i \in 1..Len(elements) :
              (elements[i].type = "heading" /\ NothingSignificantAfter(i)) =>
                  \A k \in 1..Len(BulletsSlides) : BulletsSlides[k].title # elements[i].text

\* C8: no empty group is emitted: every content slide of GammaExporter and every
\* slide GammaTextExporter writes has at least one item, and a heading followed by
\* no significant list item or paragraph gets no content slide.
C8_NoEmptyGroup ==
    /\ C8_GammaNoEmptyGroup
    /\ \A k \in 1..Len(TextSlides) : Len(TextSlides[k].content) >= 1
    /\ pc = "done" =>
          \A i \in 1..Len(elements) :
              (elements[i].type = "heading" /\ NothingSignificantAfter(i)) =>
                  \A k \in 1..Len(TextSlides) : TextSlides[k].title # elements[i].text

\* t is the title the cover slide must carry for the list elements.
CoverTitleOk(t) ==
    LET titles == {i \in 1..Len(elements) : elements[i].type = "title"}
        heads == {i \in 1..Len(elements) :
                     elements[i].type = "heading" /\ elements[i].level = 1}
    IN  \/ \E i \in titles : (\A j \in titles : i <= j) /\ t = elements[i].text
        \/ titles = {} /\ \E i \in heads : (\A j \in heads : i <= j) /\ t = elements[i].text
        \/ titles = {} /\ heads = {} /\ t = UntitledPresentation

\* C9: GammaExporter emits exactly one cover slide, first in the list, titled with
\* the first title element's text, else the first level-1 heading's, else
\* "Untitled Presentation"; a title element adds no slide and leaves the open
\* group as it is.
C9_CoverSlide ==
    [][
       /\ call' = "gamma" =>
            /\ slides' # <<>>
            /\ slides'[1].type = "cover"
            /\ \A k \in 2..Len(slides') : slides'[k].type # "cover"
            /\ CoverTitleOk(slides'[1].title)
       /\ (pc = "gamma_loop" /\ idx <= Len(elements) /\ elements[idx].type = "title") =>
            /\ slides' = slides
            /\ current_title' = current_title
            /\ current_bullets' = current_bullets
            /\ current_paragraphs' = current_paragraphs
    ]_vars

\* A level-1 heading comes first and a title element after it: the cover carries
\* the title element's text.
C9_Witness ==
    /\ call = "gamma" /\ pc = "done"
    /\ Len(elements) >= 3
    /\ elements[1].type = "heading" /\ elements[1].level = 1
    /\ elements[2].type = "heading" /\ elements[2].level = 2
    /\ elements[3].type = "title"
    /\ slides[1].title = elements[3].text

\* C10: no table slide exists before the element stream is drained; the returned
\* list ends with one table slide per table, in table order, after every cover,
\* section and content slide.
C10_TablesLast ==
    call = "gamma" =>
        /\ pc # "done" => \A k \in 1..Len(slides) : slides[k].type # "table"
        /\ pc = "done" =>
              LET n == Len(slides) - Len(tables)
              IN  /\ n >= 1
                  /\ \A k \in 1..n : slides[k].type \in {"cover", "section", "bullets"}
                  /\ \A j \in 1..Len(tables) :
                        /\ slides[n + j].type = "table"
                        /\ slides[n + j].title = <<"T", "a", "b", "l", "a", " ", Digits[j]>>
                        /\ slides[n + j].md = to_markdown(tables[j])

\* Two tables were appended right after the slide of the last flush.
C10_Witness ==
    /\ call = "gamma" /\ pc = "done"
    /\ Len(tables) = 2
    /\ Len(slides) >= 4
    /\ slides[Len(slides) - 2].type = "bullets"
    /\ slides[Len(slides) - 1].type = "table"
    /\ slides[Len(slides)].type = "table"

\* Two paragraphs of one page; two such neighbours in a list.
SamePageParagraphs(a, b) ==
    a.type = "paragraph" /\ b.type = "paragraph" /\ a.page_num = b.page_num

AdjacentParagraphs(els) ==
    \E i \in 1..(Len(els) - 1) : SamePageParagraphs(els[i], els[i + 1])

\* The list merge_elements returned is in elements.
Merged == pc # "to_merge" \/ run = 2

\* C11: merge_elements is idempotent: merging the list it returned gives that
\* list again (same length, types, pages and texts), and the list it returned
\* has no two adjacent paragraphs with the same page number.
C11_MergeIdempotent ==
    Merged => /\ merge_elements(elements) = elements
              /\ ~AdjacentParagraphs(elements)

\* A list of three paragraphs of one page has been merged into one element.
C11_Witness ==
    /\ Merged
    /\ Len(all_elements) = 3
    /\ Len(elements) = 1
    /\ elements[1].type = "paragraph"

\* The place in the output of the element at place i of els: a new output
\* element starts wherever two neighbours are not paragraphs of one page.
GroupOf(els, i) ==
    1 + Cardinality({k \in 1..(i - 1) : ~SamePageParagraphs(els[k], els[k + 1])})

\* The places of els that go to place j of the output, in order.
MembersOf(els, j) ==
    SelectSeq([i \in 1..Len(els) |-> i], LAMBDA i : GroupOf(els, i) = j)

\* What merge_elements is to return for els.
MergedAsSpecified(els) ==
    [j \in 1..(IF els = <<>> THEN 0 ELSE GroupOf(els, Len(els))) |->
        LET members == MembersOf(els, j)
        IN  [els[members[1]] EXCEPT
                !.text = Join(<<" ">>, [m \in 1..Len(members) |-> els[members[m]].text])]]

NonParagraphs(els) == SelectSeq(els, LAMBDA e : e.type # "paragraph")

\* C12: merge_elements joins two consecutive elements iff both are paragraphs
\* with the same page number, the merged text being the texts separated by one
\* space and every other field that of the first element; the elements that
\* are not paragraphs come out once each, unchanged and in their order.
C12_MergeContract ==
    [][pc = "to_merge" =>
          /\ elements' = MergedAsSpecified(all_elements)
          /\ NonParagraphs(elements') = NonParagraphs(all_elements)]_vars

\* Two paragraphs of one page were joined, the paragraph of the next page was not.
C12_Witness ==
    /\ pc = "idle"
    /\ run = 1
    /\ Len(all_elements) = 3
    /\ \A i \in 1..3 : all_elements[i].type = "paragraph"
    /\ all_elements[1].page_num = all_elements[2].page_num
    /\ all_elements[2].page_num # all_elements[3].page_num
    /\ Len(elements) = 2
    /\ Len(elements[1].text) > Len(elements[2].text)

\* C13: merging and grouping the same list object twice gives the same slides
\* both times: the first run leaves nothing behind that changes the second.
C13_SameSlidesTwice ==
    (run = 2 /\ call = "gamma" /\ pc = "done") => slides = first_slides

\* C14: merge_elements and _build_slides return normally for every element
\* list, the empty list and the lists with a heading without a level included.
C14_NeverRaises == pc # "raised"

\* _detect_rules has classified the one fragment of the page.
FragmentClassified ==
    pc = "detected" /\ Len(text_blocks) = 1 /\ Len(elements) = 1

IsTitle1(e) == e.type = "title" /\ e.level = 1

\* C15 as stated: every fragment whose font size is title_min_size or more,
\* whatever its text, is classified as a title of level 1.
C15_LargeFontIsTitle ==
    (pc = "detected" /\ Len(text_blocks) = 1
        /\ text_blocks[1].font_size >= title_min_size)
    => (Len(elements) = 1 /\ IsTitle1(elements[1]))

\* C15 amended: every fragment whose font size is title_min_size or more and
\* whose trimmed text is not a list item is classified as a title of level 1.
C15_LargeFontNotListIsTitle ==
    (pc = "detected" /\ Len(text_blocks) = 1
        /\ text_blocks[1].font_size >= title_min_size
        /\ ~_is_list_item(Trimmed(text_blocks[1].text)))
    => (Len(elements) = 1 /\ IsTitle1(elements[1]))

\* A section number in a large font that is not bold has become a title.
C15_Witness ==
    /\ FragmentClassified
    /\ text_blocks[1].font_size >= title_min_size
    /\ ~text_blocks[1].is_bold
    /\ section_match(Trimmed(text_blocks[1].text)).matched
    /\ IsTitle1(elements[1])

\* The first rule, in the order list item, title, numbered heading, size/style
\* heading, paragraph, whose predicate holds of the block.
FirstRule(block) ==
    CASE _is_list_item(Trimmed(block.text))         -> "list_item"
      [] _is_title(block)                           -> "title"
      [] section_match(Trimmed(block.text)).matched -> "numbered_heading"
      [] _is_heading(block)                         -> "size_heading"
      [] OTHER                                      -> "paragraph"

\* The rule an element comes from: only the numbered heading records a section
\* number.
RuleOf(e) ==
    IF e.type # "heading" THEN e.type
    ELSE IF "section_number" \in DOMAIN e.metadata THEN "numbered_heading"
    ELSE "size_heading"

\* C16: classify_block gives the result of the first rule that applies, in the
\* order list item, title, numbered heading, size/style heading, paragraph; a
\* bold fragment under 100 characters with a section number is a title, and so
\* is a bold short fragment that is both a title and a size/style heading.
C16_RuleOrder ==
    FragmentClassified =>
        LET block == text_blocks[1]
            e == elements[1]
            text == Trimmed(block.text)
        IN  /\ RuleOf(e) = FirstRule(block)
            /\ (block.is_bold /\ Len(text) < 100 /\ section_match(text).matched)
                  => e.type = "title"
            /\ (block.is_bold /\ Len(text) < 100 /\ _is_heading(block)
                     /\ ~_is_list_item(text))
                  => e.type = "title"

\* The bold fragment "1.2 Scope" in a body font has become a title.
C16_Witness ==
    /\ FragmentClassified
    /\ text_blocks[1].is_bold
    /\ text_blocks[1].font_size < heading_min_size
    /\ text_blocks[1].text = <<"1", ".", "2", " ", "S", "c", "o", "p", "e">>
    /\ elements[1].type = "title"

\* What stands before the first whitespace character of the text.
FirstWord(text) ==
    IF \E i \in 1..Len(text) : text[i] \in Whitespace
    THEN SubSeq(text, 1, (CHOOSE i \in 1..Len(text) :
                             /\ text[i] \in Whitespace
                             /\ \A j \in 1..(i - 1) : text[j] \notin Whitespace) - 1)
    ELSE text

\* The number of parts of a section number: its dots and one.
Components(number) == Cardinality({i \in 1..Len(number) : number[i] = "."}) + 1

Min(a, b) == IF a < b THEN a ELSE b

\* C17: a fragment whose trimmed text matches the section-number pattern and
\* that is neither a list item nor a title becomes a heading whose level is the
\* number of parts of the numeric prefix, 6 at most, and whose metadata records
\* the prefix as the section number; "2.3.4 Subsection" gets level 3.
C17_NumberedHeadingLevel ==
    FragmentClassified =>
        LET block == text_blocks[1]
            e == elements[1]
            text == Trimmed(block.text)
        IN  (section_match(text).matched /\ ~_is_list_item(text) /\ ~_is_title(block))
            => /\ e.type = "heading"
               /\ e.level = Min(Components(FirstWord(text)), 6)
               /\ "section_number" \in DOMAIN e.metadata
               /\ e.metadata.section_number = FirstWord(text)
               /\ FirstWord(text) = <<"2", ".", "3", ".", "4">> => e.level = 3

\* A section number of seven parts has given a heading of level 6.
C17_Witness ==
    /\ FragmentClassified
    /\ Components(FirstWord(text_blocks[1].text)) = 7
    /\ elements[1].type = "heading"
    /\ elements[1].level = 6
    /\ elements[1].metadata.section_number = FirstWord(text_blocks[1].text)

\* C18: for every OCR line that matches the numbered-section pattern,
\* _classify_ocr_line gives a heading whose level is the number of dots of the
\* numeric prefix plus 1, 6 at most, however deep the prefix.
C18_OcrHeadingLevelCapped ==
    [][(pc = "ocr_loop" /\ lines # <<>> /\ section_match(Trimmed(Head(lines))).matched)
       => /\ Len(all_elements') = Len(all_elements) + 1
          /\ LET e == all_elements'[Len(all_elements')]
             IN  /\ e.type = "heading"
                 /\ e.level = Min(Components(FirstWord(Trimmed(Head(lines)))), 6)]_vars

\* The whitespace the text of a fragment begins with.
LeadingWhitespace(text) ==
    Cardinality({i \in 1..Len(text) : \A j \in 1..i : text[j] \in Whitespace})

\* C19: the level of a list item is the number of leading whitespace characters
\* of the fragment's text, halved and rounded down, plus 1; four leading spaces
\* before the bullet give level 3.
C19_ListLevelFromIndent ==
    (FragmentClassified /\ elements[1].type = "list_item")
    => elements[1].level = (LeadingWhitespace(text_blocks[1].text) \div 2) + 1

\* The places of the blocks that are neither a header nor a footer, in order.
KeptBlocks ==
    SelectSeq([i \in 1..Len(text_blocks) |-> i],
              LAMBDA i : /\ Trimmed(text_blocks[i].text) \notin headers
                         /\ Trimmed(text_blocks[i].text) \notin footers)

\* C20: _detect_rules returns one element for every block whose trimmed text
\* is in neither the header set nor the footer set, in the order of the blocks,
\* and none for the other blocks; no block gives no element.
C20_OneElementPerKeptBlock ==
    pc = "detected" =>
        /\ Len(elements) = Len(KeptBlocks)
        /\ \A j \in 1..Len(KeptBlocks) :
              /\ j <= Len(elements)
              /\ elements[j].bbox = text_blocks[KeptBlocks[j]].bbox
              /\ elements[j].text = Trimmed(text_blocks[KeptBlocks[j]].text)
        /\ text_blocks = <<>> => elements = <<>>

\* Of three blocks one was the header, one the footer and one was classified.
C20_Witness ==
    /\ pc = "detected"
    /\ Len(text_blocks) = 3
    /\ \E i \in 1..3 : Trimmed(text_blocks[i].text) \in headers \ footers
    /\ \E i \in 1..3 : Trimmed(text_blocks[i].text) \in footers \ headers
    /\ Len(elements) = 1
    /\ elements[1].bbox = 2

\* ------------------------------------------------------------------ C21, C22
\* the pages on which text, trimmed, is what the first block from the top says
PagesTopped(text) ==
    {k \in 1..Len(blocks_by_page) :
        \E i \in 1..Len(blocks_by_page[k]) :
            /\ Trimmed(blocks_by_page[k][i].text) = text
            /\ \A j \in 1..Len(blocks_by_page[k]) :
                   \/ blocks_by_page[k][j].bbox > blocks_by_page[k][i].bbox
                   \/ j >= i /\ blocks_by_page[k][j].bbox = blocks_by_page[k][i].bbox}

\* the pages on which text, trimmed, is what the last block from the top says
PagesBottomed(text) ==
    {k \in 1..Len(blocks_by_page) :
        \E i \in 1..Len(blocks_by_page[k]) :
            /\ Trimmed(blocks_by_page[k][i].text) = text
            /\ \A j \in 1..Len(blocks_by_page[k]) :
                   \/ blocks_by_page[k][j].bbox < blocks_by_page[k][i].bbox
                   \/ j <= i /\ blocks_by_page[k][j].bbox = blocks_by_page[k][i].bbox}

AllTrimmedTexts ==
    UNION {{Trimmed(blocks_by_page[k][i].text) : i \in 1..Len(blocks_by_page[k])} :
              k \in 1..Len(blocks_by_page)}

\* C21: detect_headers_footers returns two empty sets whenever fewer than three
\* pages are passed to it.
C21_FewPagesNoHeaders ==
    pc = "filtered" /\ Len(blocks_by_page) < 3 => headers = {} /\ footers = {}

\* two pages that begin and end alike
C21_Witness ==
    /\ pc = "filtered"
    /\ Len(blocks_by_page) = 2
    /\ blocks_by_page[1] = blocks_by_page[2]
    /\ Len(blocks_by_page[1]) = 2
    /\ headers = {}
    /\ footers = {}

\* C22: with three pages or more, a trimmed text is a header exactly when the
\* pages on which it is the top-most fragment, over the number of pages passed,
\* reach the threshold, and a footer likewise with the bottom-most fragment.
C22_RatioOverPagesPassed ==
    pc = "filtered" /\ Len(blocks_by_page) >= 3 =>
        /\ headers = {t \in AllTrimmedTexts \cup headers :
                         Cardinality(PagesTopped(t)) * 100
                             >= threshold * Len(blocks_by_page)}
        /\ footers = {t \in AllTrimmedTexts \cup footers :
                         Cardinality(PagesBottomed(t)) * 100
                             >= threshold * Len(blocks_by_page)}

\* ------------------------------------------------------------------ C23, C27
\* how many hyphens a text holds
Hyphens(t) == Cardinality({k \in 1..Len(t) : t[k] = "-"})

\* C23: after any sequence of calls of TextPostProcessor.process, words_corrected
\* is the number of hyphenated line breaks the most recent call joined, each
\* join taking one hyphen out of the text, and nothing of the calls before.
C23_CountsLastCallOnly ==
    pc = "post" => words_corrected = Hyphens(ocr_text) - Hyphens(processed_text)

\* a call that joined one word
C23_Witness ==
    /\ pc = "post"
    /\ fix_hyphens
    /\ ocr_text = <<"a", "-", "\n", "a">>
    /\ processed_text = <<"a", "a">>
    /\ words_corrected = 1

\* place k of t is a hyphen after a word, with a line break between it and
\* the next word
IsBreak(t, k) ==
    /\ t[k] = "-"
    /\ k > 1
    /\ t[k - 1] \in WordChars
    /\ \E e \in (k + 2)..Len(t) :
          /\ t[e] \in WordChars
          /\ \A j \in (k + 1)..(e - 1) : t[j] \in Whitespace
          /\ \E j \in (k + 1)..(e - 1) : t[j] = "\n"

\* the word before the hyphen at k is the word after the hyphen at b
Chained(t, b, k) ==
    /\ b < k
    /\ \E m \in (b + 2)..(k - 1) :
          /\ \A j \in (b + 1)..(m - 1) : t[j] \in Whitespace
          /\ \A j \in m..(k - 1) : t[j] \in WordChars

RECURSIVE Joined(_, _)
\* the break at k is joined unless its word went into the join before it
Joined(t, k) ==
    /\ IsBreak(t, k)
    /\ \A b \in 1..(k - 1) : Chained(t, b, k) => ~Joined(t, b)

HyphenJoins(t) == Cardinality({k \in 1..Len(t) : Joined(t, k)})

\* C27: words_corrected of a page's PageMetrics is the number of corrections
\* made on that page's own text, and 0 for a page that needs no OCR, whatever
\* an earlier page or document had.
C27_PageMetricsOwnCorrections ==
    \A k \in 1..Len(page_metrics) :
        page_metrics[k].words_corrected =
            IF doc_pages[k].needs_ocr THEN HyphenJoins(doc_pages[k].text) ELSE 0

\* ----------------------------------------------------------------------- C24
\* how many times file i is in the list of the files handled
TimesHandled(i) == Cardinality({k \in 1..Len(handled) : handled[k] = i})

RunInParallel == workers > 1 /\ Len(pdf_files) > 1

\* C24: in both batch functions an exception raised on one PDF is caught and
\* reported, every PDF is submitted exactly once, the other PDFs are still
\* processed, and the run reaches its end; in parallel mode the progress
\* count reaches the number of files whatever the order of completion.
C24_FailuresIsolated ==
    /\ [](\A i \in 1..Len(pdf_files) : submitted[i] <= 1)
    /\ [](pc = "complete" =>
             /\ \A i \in 1..Len(pdf_files) :
                    /\ submitted[i] = 1
                    /\ TimesHandled(i) = 1
                    /\ i \in reported <=> pdf_files[i] = "raises"
             /\ RunInParallel => pbar = Len(pdf_files))
    /\ <>(pc = "complete")

\* a parallel run is over in which the first file raised and was the last to
\* complete
C24_Witness ==
    /\ pc = "complete"
    /\ RunInParallel
    /\ pdf_files[1] = "raises"
    /\ handled[Len(handled)] = 1
    /\ \E i \in 2..Len(pdf_files) : pdf_files[i] = "returns"
    /\ pbar = Len(pdf_files)

\* ------------------------------------------------------------------ C25, C30
\* how many continuation slides n items ask for: the ceiling of (n - 8) / 8
ContCount(n) == IF n > 8 THEN (n - 8 + 7) \div 8 ELSE 0

RECURSIVE BlocksBefore(_)
\* how many blocks the file holds before what the m-th merged slide writes
BlocksBefore(m) ==
    IF m = 1 THEN 1
    ELSE BlocksBefore(m - 1)
         + (IF merged_slides[m - 1].title = <<"S", "E", "C", "T", "I", "O", "N">> THEN 1
            ELSE IF merged_slides[m - 1].content = <<>> THEN 0
            ELSE 1 + ContCount(Len(merged_slides[m - 1].content)))

\* C25: a slide that is no divider and has n > 8 items is written as a slide
\* with its first 8 items followed by ceil((n - 8) / 8) slides titled
\* "<title> (cont.)" of at most 8 items each, which put end to end are the
\* items collected, in their order.
C25_ContinuationSlides ==
    pc = "md_done" =>
        \A m \in 1..Len(merged_slides) :
            LET title == merged_slides[m].title
                content == merged_slides[m].content
                n == Len(content)
                p == BlocksBefore(m)
            IN  title # <<"S", "E", "C", "T", "I", "O", "N">> /\ n > 8 =>
                    /\ written[p + 1] = Block("slide", title, SubSeq(content, 1, 8), 0)
                    /\ \A c \in 1..ContCount(n) :
                           written[p + 1 + c] =
                               Block("slide",
                                     title \o <<" ", "(", "c", "o", "n", "t", ".", ")">>,
                                     SubSeq(content, 8 * c + 1, Min(n, 8 * c + 8)), 0)
                    /\ written[p + 2 + ContCount(n)].title
                           # title \o <<" ", "(", "c", "o", "n", "t", ".", ")">>

\* seventeen items under one title: a slide of eight and continuation slides of
\* eight and of one
C25_Witness ==
    /\ pc = "md_done"
    /\ Len(merged_slides) = 1
    /\ Len(merged_slides[1].content) = 17
    /\ Len(written) = 5
    /\ Len(written[3].content) = 8
    /\ Len(written[4].content) = 1

\* the text of a numbered "# " heading, and no text when the line is none
NumberedH1(line) ==
    LET text == IF Len(Trimmed(line)) > 2 /\ SubSeq(Trimmed(line), 1, 2) = <<"#", " ">>
                THEN Trimmed(SubSeq(Trimmed(line), 3, Len(Trimmed(line))))
                ELSE <<>>
    IN  IF /\ Len(text) > 3
           /\ \E d \in 1..(Len(text) - 1) :
                 /\ \A j \in 1..d : text[j] \in DigitChars
                 /\ text[d + 1] = "."
        THEN text ELSE <<>>

\* C30: every numbered "# " heading yields a section divider of its own in
\* the file written, in the order of the source, also when two of them
\* follow each other.
C30_EveryNumberedH1IsDivider ==
    pc = "md_done" =>
        LET numbered == SelectSeq(md_lines, LAMBDA line : NumberedH1(line) # <<>>)
            dividers == SelectSeq(written, LAMBDA block : block.kind = "section")
        IN  /\ Len(dividers) = Len(numbered)
            /\ \A k \in 1..Len(numbered) : dividers[k].title = NumberedH1(numbered[k])

\* ------------------------------------------------------------------ C26, C28
\* the heading whose text is the slide title open when element i is consumed
TitleOpenAt(i) ==
    CHOOSE j \in 1..(i - 1) :
        /\ elements[j].type = "heading"
        /\ elements[j].level \in {2, 3}
        /\ \A k \in (j + 1)..(i - 1) :
              ~(elements[k].type = "heading" /\ elements[k].level \in {1, 2, 3})

\* the slides that carry the text of element i, as an item or in the notes
SlidesCarrying(i) ==
    {k \in 1..Len(slides) : GammaAppears(ItemText(elements[i]), <<slides[k]>>)}

\* C26: content keeps its source order across slides: when A precedes B in the
\* input, both are consumed under the same open title and both are emitted,
\* the slide that carries A is not emitted after the slide that carries B.
C26_SourceOrderAcrossSlides ==
    call = "gamma" /\ pc = "done" =>
        \A a \in 1..Len(elements) : \A b \in (a + 1)..Len(elements) :
            (/\ IsContent(elements[a]) /\ IsContent(elements[b])
             /\ OpenAt(a) /\ OpenAt(b)
             /\ TitleOpenAt(a) = TitleOpenAt(b)) =>
                \A ka \in SlidesCarrying(a) : \A kb \in SlidesCarrying(b) : ka <= kb

\* how many times text stands on the slide s whose title is title: as one of its
\* items or within its speaker notes
TimesOn(text, s, title) ==
    IF s.type = "bullets" /\ s.title = title
    THEN Cardinality({c \in 1..Len(s.items) : s.items[c] = text})
         + Cardinality({p \in 1..Len(s.notes) :
                           /\ p + Len(text) - 1 <= Len(s.notes)
                           /\ SubSeq(s.notes, p, p + Len(text) - 1) = text})
    ELSE 0

RECURSIVE TimesEmitted(_, _, _)
\* how many times text stands on the first n slides, under title
TimesEmitted(text, title, n) ==
    IF n = 0 THEN 0
    ELSE TimesEmitted(text, title, n - 1) + TimesOn(text, slides[n], title)

\* C28: every list item whose cleaned text is longer than 2 characters and every
\* paragraph longer than 20 characters that is consumed while a slide title is
\* open appears exactly once in the output, as an item of a content slide with
\* that title or in the speaker notes of such a slide.
C28_OpenContentExactlyOnce ==
    call = "gamma" /\ pc = "done" =>
        \A i \in 1..Len(elements) :
            (IsContent(elements[i]) /\ Significant(elements[i]) /\ OpenAt(i)) =>
                TimesEmitted(ItemText(elements[i]), elements[TitleOpenAt(i)].text,
                             Len(slides)) = 1

\* a paragraph and six list items under one title: a full slide of items and
\* a slide with the paragraph
C28_Witness ==
    /\ call = "gamma"
    /\ pc = "done"
    /\ \E k \in 1..Len(slides) : slides[k].type = "bullets" /\ Len(slides[k].items) = 6
    /\ \E k \in 1..Len(slides) :
          /\ slides[k].type = "bullets"
          /\ slides[k].notes = None
          /\ Len(slides[k].items) = 1
          /\ Len(slides[k].items[1]) > 20

\* ---------------------------------------------------------------------------
\* C29
\* ---------------------------------------------------------------------------

\* The sizes LayoutRules is constructed with (lines 27-45): whole numbers of
\* points, in any order of the three.
ConfigSizes == 10..MaxConfigSize

\* A text for each way the title rule and the size/style rule can apply: short
\* and long, upper and lower case, with a section number, a list item.
ConfigTexts ==
    {<<"P", "l", "a", "i", "n", " ", "t", "e", "x", "t">>,
     <<"I", "N", "T", "R", "O", "D", "U", "C", "T", "I", "O", "N">>,
     <<"T", "O", "C">>,
     <<"-", " ", "i", "t", "e", "m">>,
     Rep("y", 100),
     <<"1", ".", "2", " ">> \o Rep("y", 100)}

\* One block of a page of native text, classified by rules of any configuration.
InitConfig ==
    /\ title_min_size \in ConfigSizes
    /\ heading_min_size \in ConfigSizes
    /\ body_size \in ConfigSizes
    /\ \E t \in ConfigTexts, f \in FontSizes, b \in BOOLEAN :
          text_blocks = <<TextBlock(t, f, b, 0, 1)>>
    /\ lines = <<>>
    /\ pc = "to_detect"
    /\ headers = {}
    /\ footers = {}
    /\ page_num = 0
    /\ elements = <<>>
    /\ tables = <<>>
    /\ all_elements = <<>>
    /\ run = 1
    /\ first_slides = <<>>
    /\ InitExporters
    /\ InitNoFilter
    /\ InitNoPost
    /\ InitNoCli
    /\ InitNoMd

SpecConfig == InitConfig /\ [][NextDetect]_vars

\* C29: whatever title_min_size, heading_min_size and body_size are, a heading
\* that classify_block produces through the size/style rule has a level of 2, 3
\* or 4, never 1 or 5: a fragment whose font size is title_min_size or more, and
\* a bold fragment shorter than 100 characters, is taken by an earlier rule (the
\* list item or the title), so a heading of the size/style rule always owes it
\* to its font size, never to the bold clause of _is_heading.
C29_SizeHeadingNeverLevel1Or5 ==
    FragmentClassified =>
        LET block == text_blocks[1]
            e == elements[1]
            text == Trimmed(block.text)
        IN  /\ RuleOf(e) = "size_heading" =>
                  /\ e.level \notin {1, 5}
                  /\ e.level \in {2, 3, 4}
                  /\ block.font_size < title_min_size
                  /\ block.font_size >= heading_min_size
                  /\ block.font_size > body_size
            /\ (block.font_size >= title_min_size \/ (block.is_bold /\ Len(text) < 100))
                  => e.type \in {"list_item", "title"}

\* Under rules that are not the default ones, a bold fragment of 100 characters
\* has become a heading of level 2 through its font size.
C29_Witness ==
    /\ FragmentClassified
    /\ title_min_size # DefaultTitleMinSize
    /\ heading_min_size # DefaultHeadingMinSize
    /\ text_blocks[1].is_bold
    /\ RuleOf(elements[1]) = "size_heading"
    /\ elements[1].level = 2

=============================================================================
